---- MODULE Spec2Model ----
(***************************************************************************)
(* Incremental QuickBooks sync: the SyncCursor entity, the cursor and      *)
(* object repositories (UPSERT tables), the QuickBooks query the client    *)
(* sends, and the paginated fetch / persist / checkpoint loop of           *)
(* SyncExternalObjectsService.sync_quickbooks_objects, with the failures   *)
(* its calls can raise and process crashes between its durable writes;     *)
(* the orchestrator RunIntegrationSyncService.run_sync over the account    *)
(* table, the credential refresh and the configured object types; the      *)
(* credential policy; and save_batch called with arbitrary batches.        *)
(*                                                                         *)
(* Instants are integers counted in ticks; one second is TicksPerSecond    *)
(* ticks, so that formatting a datetime to whole seconds loses something.  *)
(* The instants of the credentials (expires_at, the refresh buffer) are    *)
(* integers counted in minutes.                                            *)
(***************************************************************************)
EXTENDS Integers, Sequences, FiniteSets, TLC

\* ------------------------------------------------------------------ bounds
MaxRecords == 2
MaxTs == 4
MaxPageSize == 2
MaxRuns == 2
TicksPerSecond == 3
MaxInstant == 8
MaxConcurrent == 2

\* ------------------------------------------------------- nullable values
\* Python None for a datetime column (instants are >= 1)
NoneTs == 0
\* Python None for cursor_data (a stored {"start_position": n} has n >= 1)
NoData == 0
\* Python None for error_message
NoError == "null"

CUSTOMER == "customer"
SUCCESS == "success"
FAILURE == "failure"
IN_PROGRESS == "in_progress"
INVOICE == "invoice"
QUICKBOOKS == "quickbooks"
ACTIVE == "active"
EXPIRED == "expired"
\* CredentialPolicy.DEFAULT_REFRESH_BUFFER_MINUTES; account instants count minutes
DEFAULT_REFRESH_BUFFER_MINUTES == 5
\* Python None for the local account, for the snapshot of the tables, for the
\* arguments of a call not made, and for an identity never written
NoAccount == [external_account_id |-> "null"]
NoTables == [accounts |-> {}, cursors |-> {}, objects |-> {}]
NoProbe == [op |-> "none", now |-> 0, buffer_minutes |-> 0, expires_at |-> 0,
            result |-> FALSE]
NoWrites == << >>
NoneFinished == [outcome |-> "none", at |-> "none", error |-> NoError,
                 log |-> << >>, results |-> << >>, ok |-> FALSE, due |-> FALSE,
                 after_ok |-> FALSE]

\* the texts str(e) of the three kinds of exception the loop can see
FetchErrorText == "httpx.HTTPError"
DbErrorText == "sqlalchemy.exc.DBAPIError"
BackwardText == "Cannot move cursor backward"

Min2(a, b) == IF a < b THEN a ELSE b
SetMax(S) == CHOOSE x \in S : \A y \in S : y <= x
Range(s) == {s[i] : i \in 1..Len(s)}

VARIABLES
    vendor,          \* the vendor's objects of the type: vendor[i] is the LastUpdatedTime of object i, in the order the vendor lists them
    pageSize,        \* the vendor's page size when the query carries no MAXRESULTS
    cursors,         \* table quickbooks.sync_cursors (durable)
    objects,         \* table quickbooks.customers (durable)
    pc,              \* position of the running sync_quickbooks_objects call
    cursor,          \* its local SyncCursor
    start_position,  \* its local start_position
    total_synced,    \* its local total_synced
    qb_objects,      \* its local qb_objects, the page last fetched
    error,           \* the exception being handled, as str(e)
    failedAt,        \* the step that raised it
    runs,            \* number of calls started; also the wall clock
    trail,           \* how each finished call ended
    lsa0,            \* last_synced_at of the cursor when the current call started
    observed,        \* the update times seen in the pages of the current call
    pages,           \* number of non-empty pages fetched by the current call
    accounted,       \* ids of the objects of pages whose checkpoint is durable
    pos0,            \* the offset of the first request of the current call
    unwritten,       \* the offset of the first object the current call has not yet durably persisted
    call,            \* the last SyncCursor method called directly, with its arguments
    accounts,        \* table quickbooks.accounts (durable)
    remote,          \* the vendor's objects per object type, as vendor is for one type
    cpc,             \* position of the running run_sync call
    account,         \* its local IntegrationAccount
    pending,         \* the object types its loop has still to go through
    results,         \* its local results
    log,             \* the calls it has made to the vendor and to the account repository
    before,          \* the three tables as they were when the current run_sync call started
    finished,        \* how the last finished run_sync call ended, and whether the call before it succeeded for every type
    probe,           \* the last Credentials method called directly, with its arguments
    latest,          \* per identity, the values of the last committed write and the number of committed writes
    workflows,       \* the open workflow executions of the Temporal service
    executing,       \* the executions of the activity run_integration_sync whose code is running on a worker
    response,        \* what the last quickbooks_connect request answered
    loops            \* per object type, the locals of its sync_quickbooks_objects call when the calls of two types are interleaved

vars == <<vendor, pageSize, cursors, objects, pc, cursor, start_position,
          total_synced, qb_objects, error, failedAt, runs, trail, lsa0,
          observed, pages, accounted, pos0, unwritten, call, accounts, remote,
          cpc, account, pending, results, log, before, finished, probe, latest,
          workflows, executing, response, loops>>

\* the variables of the workflow, its activity and the connect endpoint
workflowVars == <<workflows, executing, response>>

\* the variables of run_sync
cycleVars == <<accounts, remote, cpc, account, pending, results, log, before,
               finished>>

\* what no step of the sync loop changes
fixed == <<vendor, pageSize, call, cycleVars, probe, latest, workflowVars,
           loops>>

\* ------------------------------------------------------ SyncCursor entity
NewCursor(object_type, now) ==
    [object_type |-> object_type, last_synced_at |-> NoneTs,
     last_attempt_at |-> now, status |-> IN_PROGRESS, cursor_data |-> NoData,
     error_message |-> NoError, records_synced |-> 0]

advance_cursor_no_check(c, new_timestamp, records_count, cursor_data, now) ==
    [raised |-> FALSE,
     cursor |-> [c EXCEPT !.last_synced_at = new_timestamp,
                          !.last_attempt_at = now,
                          !.status = SUCCESS,
                          !.cursor_data = cursor_data,
                          !.error_message = NoError,
                          !.records_synced = c.records_synced + records_count]]

advance_cursor_overwrites_count(c, new_timestamp, records_count, cursor_data, now) ==
    IF c.last_synced_at # NoneTs /\ new_timestamp < c.last_synced_at
    THEN [raised |-> TRUE, cursor |-> c]
    ELSE [raised |-> FALSE,
          cursor |-> [c EXCEPT !.last_synced_at = new_timestamp,
                               !.last_attempt_at = now,
                               !.status = SUCCESS,
                               !.cursor_data = cursor_data,
                               !.error_message = NoError,
                               !.records_synced = records_count]]

advance_cursor_strict(c, new_timestamp, records_count, cursor_data, now) ==
    IF c.last_synced_at # NoneTs /\ new_timestamp <= c.last_synced_at
    THEN [raised |-> TRUE, cursor |-> c]
    ELSE advance_cursor_no_check(c, new_timestamp, records_count, cursor_data, now)

\* the result is the cursor after the call and whether ValueError was raised
advance_cursor(c, new_timestamp, records_count, cursor_data, now) ==
    IF c.last_synced_at # NoneTs /\ new_timestamp < c.last_synced_at
    THEN [raised |-> TRUE, cursor |-> c]
    ELSE [raised |-> FALSE,
          cursor |-> [c EXCEPT !.last_synced_at = new_timestamp,
                               !.last_attempt_at = now,
                               !.status = SUCCESS,
                               !.cursor_data = cursor_data,
                               !.error_message = NoError,
                               !.records_synced = c.records_synced + records_count]]

mark_attempt_clears_data(c, now) ==
    [c EXCEPT !.last_attempt_at = now, !.status = IN_PROGRESS,
              !.cursor_data = NoData]

mark_attempt_keeps_status(c, now) ==
    [c EXCEPT !.last_attempt_at = now]

mark_attempt_clears_error(c, now) ==
    [c EXCEPT !.last_attempt_at = now, !.status = IN_PROGRESS,
              !.error_message = NoError]

mark_attempt(c, now) ==
    [c EXCEPT !.last_attempt_at = now, !.status = IN_PROGRESS]

mark_failure_keeps_data(c, error_message, cursor_data, now) ==
    [c EXCEPT !.last_attempt_at = now,
              !.status = FAILURE,
              !.error_message = error_message]

mark_failure(c, error_message, cursor_data, now) ==
    [c EXCEPT !.last_attempt_at = now,
              !.status = FAILURE,
              !.cursor_data = IF cursor_data # NoData THEN cursor_data ELSE @,
              !.error_message = error_message]

get_cursor_value(c) == c.last_synced_at

\* ------------------------------------------------------------ repositories
cursor_save_one_row(table, c) == {c}

cursor_save_insert(table, c) == table \cup {c}

\* INSERT ... ON CONFLICT (external_account_id, object_type) DO UPDATE
cursor_save(table, c) ==
    {r \in table : r.object_type # c.object_type} \cup {c}

find_by_composite_key(table, object_type) ==
    {r \in table : r.object_type = object_type}

RawExternalObject(object_type, obj) ==
    [object_type |-> object_type, qbo_id |-> obj.id,
     last_updated_time |-> obj.last_updated_time]

save_batch_dropped(table, batch) == table

save_batch_do_nothing(table, batch) ==
    table \cup {b \in batch : \A r \in table :
                    ~(b.object_type = r.object_type /\ b.qbo_id = r.qbo_id)}

\* INSERT ... ON CONFLICT (external_account_id, qbo_id) DO UPDATE, one commit
save_batch(table, batch) ==
    IF batch = {} THEN table
    ELSE {r \in table : \A b \in batch :
              ~(b.object_type = r.object_type /\ b.qbo_id = r.qbo_id)} \cup batch

\* ------------------------------------------------------- QuickBooks client
\* updated_since.strftime("%Y-%m-%dT%H:%M:%S"): the sub-second part is dropped
strftime(ts) == (ts \div TicksPerSecond) * TicksPerSecond

VendorObjects(v) ==
    [i \in 1..Len(v) |-> [id |-> i, last_updated_time |-> v[i]]]

\* WHERE MetaData.LastUpdatedTime > '<formatted>Z', when updated_since is given
QueryMatches(v, updated_since) ==
    SelectSeq(VendorObjects(v),
              LAMBDA o : updated_since = NoneTs
                         \/ o.last_updated_time > strftime(updated_since))

\* STARTPOSITION start_position, no MAXRESULTS: the vendor's own page size
fetch_customers(v, size, updated_since, position) ==
    LET m == QueryMatches(v, updated_since)
    IN  SubSeq(m, position, Min2(Len(m), position + size - 1))

\* ------------------------------------------------------------ the sync loop
ResumeOffByOne(c) ==
    IF c.cursor_data # NoData THEN c.cursor_data + 1 ELSE 1

ResumeFromOne(c) == 1

\* lines 92-98: start at the stored start_position when there is one
ResumePosition(c) ==
    IF c.cursor_data # NoData THEN c.cursor_data ELSE 1

PageMin(page) ==
    CHOOSE x \in {o.last_updated_time : o \in Range(page)} :
        \A o \in Range(page) : x <= o.last_updated_time

\* max(obj.last_updated_time for obj in qb_objects)
PageMax(page) == SetMax({o.last_updated_time : o \in Range(page)})

IdleLocals ==
    /\ cursor' = NewCursor(CUSTOMER, 0)
    /\ start_position' = 1
    /\ total_synced' = 0
    /\ qb_objects' = << >>
    /\ error' = NoError
    /\ failedAt' = "none"

\* the call is over: outcome is "success", "raised" or "crash"; at is the step
\* where it ended, cause the exception that sent it to the handler, err the
\* exception that left the call, recorded whether its last cursor save committed
Finish(outcome, at, cause, err, recorded) ==
    /\ pc' = "idle"
    /\ trail' = Append(trail, [outcome |-> outcome, at |-> at, pages |-> pages,
                               cause |-> cause, error |-> err,
                               recorded |-> recorded, from |-> pos0,
                               upto |-> unwritten])
    /\ IdleLocals

Raise(at, err) ==
    /\ pc' = "handler"
    /\ error' = err
    /\ failedAt' = at

NoCall ==
    [op |-> "none", before |-> NewCursor(CUSTOMER, 0), new_timestamp |-> 0,
     records_count |-> 0, cursor_data |-> NoData, error_message |-> NoError,
     now |-> 0, raised |-> FALSE]

\* what quickbooks_connect answers, before any request
NoResponse == [realm_id |-> "null", workflow_id |-> "null",
               workflow_started |-> FALSE, already |-> FALSE, status |-> 0]

\* no workflow was started and no two sync loops are interleaved
NoWorkflow ==
    /\ workflows = {}
    /\ executing = {}
    /\ response = NoResponse
    /\ loops = << >>

\* no run_sync call, no account: the sync loop is called on its own
NoCycle ==
    /\ accounts = {}
    /\ remote = << >>
    /\ cpc = "idle"
    /\ account = NoAccount
    /\ pending = << >>
    /\ results = << >>
    /\ log = << >>
    /\ before = NoTables
    /\ finished = NoneFinished

Init ==
    /\ vendor \in UNION {[1..n -> 1..MaxTs] : n \in 0..MaxRecords}
    /\ pageSize \in 1..MaxPageSize
    /\ cursors = {}
    /\ objects = {}
    /\ pc = "idle"
    /\ cursor = NewCursor(CUSTOMER, 0)
    /\ start_position = 1
    /\ total_synced = 0
    /\ qb_objects = << >>
    /\ error = NoError
    /\ failedAt = "none"
    /\ runs = 0
    /\ trail = << >>
    /\ lsa0 = NoneTs
    /\ observed = {}
    /\ pages = 0
    /\ accounted = {}
    /\ pos0 = 1
    /\ unwritten = 1
    /\ call = NoCall
    /\ NoCycle
    /\ probe = NoProbe
    /\ latest = NoWrites
    /\ NoWorkflow

\* lines 72-98, the first cursor save committed
StartRun ==
    /\ pc = "idle"
    /\ runs < MaxRuns
    /\ LET found == find_by_composite_key(cursors, CUSTOMER)
           now == runs + 1
           c0 == IF found = {} THEN NewCursor(CUSTOMER, now)
                 ELSE CHOOSE r \in found : TRUE
           c1 == mark_attempt(c0, now)
       IN  /\ cursors' = cursor_save(cursors, c1)
           /\ cursor' = c1
           /\ start_position' = ResumePosition(c1)
           /\ lsa0' = c1.last_synced_at
           /\ pos0' = ResumePosition(c1)
           /\ unwritten' = ResumePosition(c1)
    /\ runs' = runs + 1
    /\ total_synced' = 0
    /\ observed' = {}
    /\ pages' = 0
    /\ pc' = "fetch"
    /\ UNCHANGED <<fixed, objects, qb_objects, error, failedAt,
                   trail, accounted>>

\* lines 88-90, the first cursor save raising: it is outside the try block
StartRunDbError ==
    /\ pc = "idle"
    /\ runs < MaxRuns
    /\ runs' = runs + 1
    /\ lsa0' = LET found == find_by_composite_key(cursors, CUSTOMER)
               IN  IF found = {} THEN NoneTs
                   ELSE (CHOOSE r \in found : TRUE).last_synced_at
    /\ observed' = {}
    /\ pages' = 0
    /\ pc' = "idle"
    /\ trail' = Append(trail, [outcome |-> "raised", at |-> "start", pages |-> 0,
                               cause |-> DbErrorText, error |-> DbErrorText,
                               recorded |-> FALSE, from |-> 1, upto |-> 1])
    /\ IdleLocals
    /\ UNCHANGED <<fixed, cursors, objects, accounted, pos0, unwritten>>

FetchOkStopsAtShortPage ==
    /\ pc = "fetch"
    /\ qb_objects' = fetch_customers(vendor, pageSize, get_cursor_value(cursor),
                                     start_position)
    /\ pc' = IF Len(qb_objects') < pageSize THEN "finalize" ELSE "persist"
    /\ pages' = IF qb_objects' = << >> THEN pages ELSE pages + 1
    /\ observed' = observed \cup {o.last_updated_time : o \in Range(qb_objects')}
    /\ UNCHANGED <<fixed, cursors, objects, cursor, start_position,
                   total_synced, error, failedAt, runs, trail, lsa0, accounted, pos0, unwritten>>

\* lines 103-112, the request answered
FetchOk ==
    /\ pc = "fetch"
    /\ qb_objects' = fetch_customers(vendor, pageSize, get_cursor_value(cursor),
                                     start_position)
    /\ pc' = IF qb_objects' = << >> THEN "finalize" ELSE "persist"
    /\ pages' = IF qb_objects' = << >> THEN pages ELSE pages + 1
    /\ observed' = observed \cup {o.last_updated_time : o \in Range(qb_objects')}
    /\ UNCHANGED <<fixed, cursors, objects, cursor, start_position,
                   total_synced, error, failedAt, runs, trail, lsa0, accounted, pos0, unwritten>>

\* lines 103-108, the request failing (response.raise_for_status, timeout)
FetchError ==
    /\ pc = "fetch"
    /\ Raise("fetch", FetchErrorText)
    /\ UNCHANGED <<fixed, cursors, objects, cursor, start_position,
                   total_synced, qb_objects, runs, trail, lsa0, observed, pages,
                   accounted, pos0, unwritten>>

\* lines 114-136: the page committed, then the local counters
PersistOk ==
    /\ pc = "persist"
    /\ objects' = save_batch(objects,
                     {RawExternalObject(CUSTOMER, o) : o \in Range(qb_objects)})
    /\ total_synced' = total_synced + Len(qb_objects)
    /\ start_position' = start_position + Len(qb_objects)
    /\ unwritten' = unwritten + Len(qb_objects)
    /\ pc' = "checkpoint"
    /\ UNCHANGED <<fixed, cursors, cursor, qb_objects, error,
                   failedAt, runs, trail, lsa0, observed, pages, accounted,
                   pos0>>

\* line 128 raising: nothing of the page is committed
PersistError ==
    /\ pc = "persist"
    /\ Raise("persist", DbErrorText)
    /\ UNCHANGED <<fixed, cursors, objects, cursor, start_position,
                   total_synced, qb_objects, runs, trail, lsa0, observed, pages,
                   accounted, pos0, unwritten>>

Advanced ==
    advance_cursor(cursor, PageMax(qb_objects), Len(qb_objects), start_position,
                   runs)

\* lines 139-144, the checkpoint committed
CheckpointOk ==
    /\ pc = "checkpoint"
    /\ ~Advanced.raised
    /\ cursor' = Advanced.cursor
    /\ cursors' = cursor_save(cursors, cursor')
    /\ accounted' = accounted \cup {o.id : o \in Range(qb_objects)}
    /\ pc' = "fetch"
    /\ UNCHANGED <<fixed, objects, start_position, total_synced,
                   qb_objects, error, failedAt, runs, trail, lsa0, observed,
                   pages, pos0, unwritten>>

\* lines 139-143, advance_cursor raising ValueError
CheckpointBackward ==
    /\ pc = "checkpoint"
    /\ Advanced.raised
    /\ Raise("checkpoint", BackwardText)
    /\ UNCHANGED <<fixed, cursors, objects, cursor, start_position,
                   total_synced, qb_objects, runs, trail, lsa0, observed, pages,
                   accounted, pos0, unwritten>>

\* line 144 raising, after advance_cursor changed the local cursor
CheckpointDbError ==
    /\ pc = "checkpoint"
    /\ ~Advanced.raised
    /\ cursor' = Advanced.cursor
    /\ Raise("checkpoint", DbErrorText)
    /\ UNCHANGED <<fixed, cursors, objects, start_position,
                   total_synced, qb_objects, runs, trail, lsa0, observed, pages,
                   accounted, pos0, unwritten>>

FinalizeOkKeepsToken ==
    /\ pc = "finalize"
    /\ cursors' = cursor_save(cursors, cursor)
    /\ Finish("success", "finalize", NoError, NoError, TRUE)
    /\ UNCHANGED <<fixed, objects, runs, lsa0, observed, pages,
                   accounted, pos0, unwritten>>

\* lines 148-155, the last save committed
FinalizeOk ==
    /\ pc = "finalize"
    /\ cursors' = cursor_save(cursors, [cursor EXCEPT !.cursor_data = NoData])
    /\ Finish("success", "finalize", NoError, NoError, TRUE)
    /\ UNCHANGED <<fixed, objects, runs, lsa0, observed, pages,
                   accounted, pos0, unwritten>>

\* line 153 raising, after line 152 cleared the local cursor_data
FinalizeDbError ==
    /\ pc = "finalize"
    /\ cursor' = [cursor EXCEPT !.cursor_data = NoData]
    /\ Raise("finalize", DbErrorText)
    /\ UNCHANGED <<fixed, cursors, objects, start_position,
                   total_synced, qb_objects, runs, trail, lsa0, observed, pages,
                   accounted, pos0, unwritten>>

\* lines 157-161, the failure recorded and the exception re-raised
HandlerOk ==
    /\ pc = "handler"
    /\ cursors' = cursor_save(cursors,
                     mark_failure(cursor, error, start_position, runs))
    /\ Finish("raised", failedAt, error, error, TRUE)
    /\ accounted' = IF failedAt = "checkpoint"
                    THEN accounted \cup {o.id : o \in Range(qb_objects)}
                    ELSE accounted
    /\ UNCHANGED <<fixed, objects, runs, lsa0, observed, pages, pos0,
                   unwritten>>

\* line 160 raising: the save's own exception leaves the handler
HandlerDbError ==
    /\ pc = "handler"
    /\ Finish("raised", failedAt, error, DbErrorText, FALSE)
    /\ UNCHANGED <<fixed, cursors, objects, runs, lsa0, observed,
                   pages, accounted, pos0, unwritten>>

\* the worker process dies; only the two tables survive. The handler does
\* nothing but its save after the step that raised, so a crash in it leaves
\* what a crash at that step leaves.
Crash ==
    /\ pc \in {"fetch", "persist", "checkpoint", "finalize"}
    /\ Finish("crash", pc, NoError, NoError, FALSE)
    /\ UNCHANGED <<fixed, cursors, objects, runs, lsa0, observed,
                   pages, accounted, pos0, unwritten>>

Next ==
    \/ StartRun
    \/ StartRunDbError
    \/ FetchOk
    \/ FetchError
    \/ PersistOk
    \/ PersistError
    \/ CheckpointOk
    \/ CheckpointBackward
    \/ CheckpointDbError
    \/ FinalizeOk
    \/ FinalizeDbError
    \/ HandlerOk
    \/ HandlerDbError
    \/ Crash

Spec == Init /\ [][Next]_vars

TypeOK ==
    /\ pc \in {"idle", "fetch", "persist", "checkpoint", "finalize", "handler"}
    /\ runs \in 0..MaxRuns
    /\ Cardinality(cursors) <= 1

\* --------------------------------------- the SyncCursor entity on its own
\* Every variable of the sync loop, unused when the entity is driven directly.
loopVars == <<vendor, pageSize, cursors, objects, pc, start_position,
              total_synced, qb_objects, error, failedAt, runs, trail, lsa0,
              observed, pages, accounted, pos0, unwritten, cycleVars, probe,
              latest, workflowVars, loops>>

Timestamps == 1..MaxTs
Clock == 1..MaxRuns
\* a cursor without resume token and one with {"start_position": 2}
CursorData == {NoData, 2}
\* an empty batch and a batch of one record
Counts == {0, 1}
\* utcnow() at a call: the clock does not run backward
Now(c) == {t \in Clock : t = c.last_attempt_at \/ t = c.last_attempt_at + 1}
ErrorTexts == {FetchErrorText, DbErrorText}

InitCursor ==
    /\ cursor \in [object_type : {CUSTOMER},
                   last_synced_at : {NoneTs} \cup Timestamps,
                   last_attempt_at : Clock,
                   status : {SUCCESS, FAILURE, IN_PROGRESS},
                   cursor_data : CursorData,
                   error_message : {NoError, FetchErrorText},
                   records_synced : {0}]
    /\ call = NoCall
    /\ vendor = << >>
    /\ pageSize = 1
    /\ cursors = {}
    /\ objects = {}
    /\ pc = "idle"
    /\ start_position = 1
    /\ total_synced = 0
    /\ qb_objects = << >>
    /\ error = NoError
    /\ failedAt = "none"
    /\ runs = 0
    /\ trail = << >>
    /\ lsa0 = NoneTs
    /\ observed = {}
    /\ pages = 0
    /\ accounted = {}
    /\ pos0 = 1
    /\ unwritten = 1
    /\ NoCycle
    /\ probe = NoProbe
    /\ latest = NoWrites
    /\ NoWorkflow

CallAdvanceCursor ==
    \E ts \in Timestamps, n \in Counts, data \in CursorData, now \in Now(cursor) :
        LET r == advance_cursor(cursor, ts, n, data, now)
        IN  /\ cursor.records_synced + n <= MaxRuns
            /\ cursor' = r.cursor
            /\ call' = [op |-> "advance_cursor", before |-> cursor,
                        new_timestamp |-> ts, records_count |-> n,
                        cursor_data |-> data, error_message |-> NoError,
                        now |-> now, raised |-> r.raised]
            /\ UNCHANGED loopVars

CallMarkAttempt ==
    \E now \in Now(cursor) :
        /\ cursor' = mark_attempt(cursor, now)
        /\ call' = [NoCall EXCEPT !.op = "mark_attempt", !.before = cursor,
                                  !.now = now]
        /\ UNCHANGED loopVars

CallMarkFailure ==
    \E msg \in ErrorTexts, data \in CursorData, now \in Now(cursor) :
        /\ cursor' = mark_failure(cursor, msg, data, now)
        /\ call' = [NoCall EXCEPT !.op = "mark_failure", !.before = cursor,
                                  !.cursor_data = data, !.error_message = msg,
                                  !.now = now]
        /\ UNCHANGED loopVars

NextCursor ==
    \/ CallAdvanceCursor
    \/ CallMarkAttempt
    \/ CallMarkFailure

SpecCursor == InitCursor /\ [][NextCursor]_vars

\* ------------------------------------------------------------------ claims
LastRun == trail[Len(trail)]
Ended(outcome) == pc = "idle" /\ trail # << >> /\ LastRun.outcome = outcome
Running == pc # "idle"
StoredIds == {r.qbo_id : r \in objects}
IsSorted(v) == \A i, j \in 1..Len(v) : i < j => v[i] <= v[j]

\* C1: the durably stored last_synced_at of the cursor never decreases, and
\* once non-null never becomes null, and the row is never removed, over any
\* step of any sync run, page checkpoint, failure or crash-restart.
C1_DurableLastSyncedAtMonotonic ==
    [][/\ cursors # {} => cursors' # {}
       /\ \A r \in cursors : \A q \in cursors' :
              q.object_type = r.object_type
                  => q.last_synced_at >= r.last_synced_at]_vars

\* a later run, after an interrupted one, has moved a non-null last_synced_at
C1_Witness ==
    /\ trail # << >>
    /\ lsa0 # NoneTs
    /\ \E r \in cursors : r.last_synced_at > lsa0

\* C2: advance_cursor with a timestamp strictly earlier than the current
\* non-null last_synced_at raises and leaves every field of the cursor as it
\* was; with a timestamp equal to or later than it, it does not raise.
C2_AdvanceRejectsOnlyEarlier ==
    (call.op = "advance_cursor" /\ call.before.last_synced_at # NoneTs)
        => /\ call.new_timestamp < call.before.last_synced_at
                => (call.raised /\ cursor = call.before)
           /\ call.new_timestamp >= call.before.last_synced_at
                => ~call.raised

C2_Witness ==
    /\ call.op = "advance_cursor"
    /\ call.before.last_synced_at # NoneTs
    /\ call.new_timestamp < call.before.last_synced_at
    /\ call.raised
    /\ cursor = call.before

TheCursor == CHOOSE r \in cursors : r.object_type = CUSTOMER
IsIncreasing(v) == \A i, j \in 1..Len(v) : i < j => v[i] < v[j]
ChangedSince(v, since) ==
    {i \in 1..Len(v) : since = NoneTs \/ v[i] > since}

\* C3: when a run terminates successfully against unchanging vendor data that
\* the vendor filters by the requested time, lists in increasing update time
\* and pages by the 1-based offset, every vendor object whose update time is
\* greater than the last_synced_at the cursor had when the run started (every
\* object when it was unset) is in the local store.
C3_SuccessfulRunStoresAllChanged ==
    (Ended("success") /\ IsIncreasing(vendor))
        => \A i \in ChangedSince(vendor, lsa0) :
               RawExternalObject(CUSTOMER, VendorObjects(vendor)[i]) \in objects

\* C4: write-before-checkpoint. In every state, also after a crash, every
\* object of a page that the durable cursor accounts for (by its resume
\* offset, its records_synced or its last_synced_at) is durably stored, and
\* while a checkpoint is about to be saved its page is already stored.
C4_WriteBeforeCheckpoint ==
    /\ accounted \subseteq StoredIds
    /\ pc = "checkpoint" => {o.id : o \in Range(qb_objects)} \subseteq StoredIds

\* a crash right after a page checkpoint: the page is accounted for and stored
C4_Witness ==
    /\ Ended("crash")
    /\ LastRun.at = "fetch"
    /\ accounted # {}
    /\ cursors # {} /\ TheCursor.cursor_data # NoData
    /\ accounted \subseteq StoredIds

\* C5: while a run is in progress the durable last_synced_at keeps the value
\* it had when the run started; page checkpoints do not move it.
C5_LastSyncedAtFixedDuringRun ==
    (Running /\ cursors # {}) => TheCursor.last_synced_at = lsa0

\* C6: after a run that terminated successfully (also one whose first page was
\* empty) the durable cursor has status success, no resume token and no
\* error_message.
C6_SuccessLeavesCleanCursor ==
    Ended("success")
        => /\ cursors # {}
           /\ TheCursor.status = SUCCESS
           /\ TheCursor.cursor_data = NoData
           /\ TheCursor.error_message = NoError

\* C7: after a run that terminated successfully, last_synced_at is the largest
\* update time seen in the pages of that run when it fetched at least one
\* non-empty page, and is what it was when the run started otherwise.
C7_LastSyncedAtIsRunMaximum ==
    Ended("success")
        => /\ cursors # {}
           /\ TheCursor.last_synced_at =
                  IF LastRun.pages > 0 THEN SetMax(observed) ELSE lsa0

\* a successful run of two pages, the second with later update times
C7_Witness ==
    /\ Ended("success")
    /\ LastRun.pages >= 2
    /\ TheCursor.last_synced_at = SetMax(observed)
    /\ TheCursor.last_synced_at > lsa0

RECURSIVE LoopFrom(_, _, _, _, _, _)
LoopFrom(v, size, c, position, store, now) ==
    LET page == fetch_customers(v, size, get_cursor_value(c), position)
        next_position == position + Len(page)
        stored == save_batch(store,
                      {RawExternalObject(c.object_type, o) : o \in Range(page)})
        adv == advance_cursor(c, PageMax(page), Len(page), next_position, now)
    IN  IF page = << >>
        THEN [ok |-> TRUE, cursor |-> [c EXCEPT !.cursor_data = NoData],
              objects |-> store]
        ELSE IF adv.raised
        THEN [ok |-> FALSE,
              cursor |-> mark_failure(c, BackwardText, next_position, now),
              objects |-> stored]
        ELSE LoopFrom(v, size, adv.cursor, next_position, stored, now)

\* lines 72-155 on a database that has no cursor row and no object yet
UninterruptedFirstRun(v, size) ==
    LET c1 == mark_attempt(NewCursor(CUSTOMER, 1), 1)
    IN  LoopFrom(v, size, c1, ResumePosition(c1), {}, 1)

OnlyCheckpointCrashesBefore(n) ==
    \A i \in 1..(n - 1) :
        trail[i].outcome = "crash" /\ trail[i].at = "checkpoint"

\* C9: when every earlier run crashed after persisting a page and before
\* saving that page's checkpoint, the run that then terminates successfully
\* leaves the same stored objects and the same last_synced_at as a first run
\* that nothing interrupted.
C9_ResumeAfterCrashEqualsUninterrupted ==
    (Ended("success") /\ Len(trail) >= 2 /\ OnlyCheckpointCrashesBefore(Len(trail)))
        => LET ref == UninterruptedFirstRun(vendor, pageSize)
           IN  /\ ref.ok
               /\ objects = ref.objects
               /\ cursors # {}
               /\ TheCursor.last_synced_at = ref.cursor.last_synced_at

\* the interrupted run had checkpointed a page before the page it crashed on
C9_Witness ==
    /\ Ended("success")
    /\ Len(trail) = 2
    /\ trail[1].outcome = "crash" /\ trail[1].at = "checkpoint"
    /\ trail[1].pages >= 2
    /\ LastRun.from > 1
    /\ LastRun.pages >= 1
    /\ objects = UninterruptedFirstRun(vendor, pageSize).objects

\* C10: a first run fails at the fetch of page k+1 after checkpointing pages
\* 1..k; the second run, with no failure, starts at the stored resume offset
\* and ends with status success, every vendor object stored and records_synced
\* equal to the number of vendor objects.
C10_FailThenResumeCompletes ==
    (/\ Ended("success")
     /\ Len(trail) = 2
     /\ trail[1].outcome = "raised" /\ trail[1].at = "fetch"
     /\ trail[1].recorded /\ trail[1].pages >= 1
     /\ IsIncreasing(vendor))
        => /\ LastRun.from = trail[1].upto
           /\ cursors # {}
           /\ TheCursor.status = SUCCESS
           /\ \A i \in 1..Len(vendor) :
                  RawExternalObject(CUSTOMER, VendorObjects(vendor)[i]) \in objects
           /\ TheCursor.records_synced = Len(vendor)
NoEarlierSuccess ==
    \A i \in 1..(Len(trail) - 1) : trail[i].outcome # "success"

\* C12: no double counting. When a run terminates successfully after one or
\* more runs that a crash or a failure interrupted at any step, the durable
\* records_synced is what a first run that nothing interrupts leaves when it
\* terminates successfully over the same vendor data, and until that first
\* success no object is added to records_synced more than once:
\* records_synced never exceeds the number of distinct stored objects.
C12_NoDoubleCounting ==
    /\ (/\ Ended("success") /\ Len(trail) >= 2 /\ NoEarlierSuccess
        /\ UninterruptedFirstRun(vendor, pageSize).ok)
          => /\ cursors # {}
             /\ TheCursor.records_synced =
                    UninterruptedFirstRun(vendor, pageSize).cursor.records_synced
    /\ (cursors # {} /\ \A i \in 1..Len(trail) : trail[i].outcome # "success")
          => TheCursor.records_synced <= Cardinality(StoredIds)

\* a page was persisted, its checkpoint was lost, and the run that resumed
\* fetched and upserted that page again before it succeeded
C12_Witness ==
    /\ Ended("success")
    /\ Len(trail) = 2
    /\ trail[1].outcome \in {"crash", "raised"}
    /\ trail[1].at = "checkpoint"
    /\ LastRun.from < trail[1].upto
    /\ TheCursor.records_synced = Len(vendor)
    /\ TheCursor.records_synced >= 2

\* C13: the durable records_synced of a cursor never decreases, and a page
\* checkpoint is one cursor write after which records_synced is the durable
\* value plus the size of the page and the resume token is the offset the
\* page was requested at plus the size of the page.
C13_CheckpointIsOneExactWrite ==
    [][/\ \A r \in cursors : \A q \in cursors' :
              q.object_type = r.object_type
                  => q.records_synced >= r.records_synced
       /\ (pc = "checkpoint" /\ cursors' # cursors)
              => LET old == CHOOSE r \in cursors : r.object_type = CUSTOMER
                     new == CHOOSE r \in cursors' : r.object_type = CUSTOMER
                 IN  /\ Cardinality(cursors') = 1
                     /\ new.records_synced
                            = old.records_synced + Len(qb_objects)
                     /\ new.cursor_data
                            = ResumePosition(old) + Len(qb_objects)
                     /\ objects' = objects]_vars

\* the checkpoint of a second page has been saved
C13_Witness ==
    /\ pc = "fetch"
    /\ pages >= 2
    /\ cursors # {}
    /\ TheCursor.records_synced >= 2
    /\ TheCursor.cursor_data = start_position
    /\ TheCursor.cursor_data >= 3

\* ------------------------------------------- the credential policy on its own
\* the variables of the sync loop and of the entity that run_sync, the
\* credential policy and the object repository never touch
syncVars == <<vendor, pc, cursor, start_position, total_synced, qb_objects,
              error, failedAt, trail, lsa0, observed, pages, accounted, pos0,
              unwritten, call>>

\* no sync loop is running and no SyncCursor method has been called
NoSync ==
    /\ vendor = << >>
    /\ pc = "idle"
    /\ cursor = NewCursor(CUSTOMER, 0)
    /\ start_position = 1
    /\ total_synced = 0
    /\ qb_objects = << >>
    /\ error = NoError
    /\ failedAt = "none"
    /\ trail = << >>
    /\ lsa0 = NoneTs
    /\ observed = {}
    /\ pages = 0
    /\ accounted = {}
    /\ pos0 = 1
    /\ unwritten = 1
    /\ call = NoCall

Credentials(access_token, refresh_token, expires_at) ==
    [access_token |-> access_token, refresh_token |-> refresh_token,
     expires_at |-> expires_at]

IntegrationAccount(external_account_id, credentials, status, updated_at) ==
    [external_account_id |-> external_account_id, credentials |-> credentials,
     status |-> status, updated_at |-> updated_at]

\* datetime.utcnow() >= self.expires_at
is_expired(credentials, now) == now >= credentials.expires_at

needs_refresh_after_buffer(credentials, buffer_minutes, now) ==
    now > credentials.expires_at - buffer_minutes

\* datetime.utcnow() >= self.expires_at - timedelta(minutes=buffer_minutes)
needs_refresh(credentials, buffer_minutes, now) ==
    now >= credentials.expires_at - buffer_minutes

should_refresh_credentials(acct, buffer_minutes, now) ==
    needs_refresh(acct.credentials, buffer_minutes, now)

is_token_expired(credentials, now) == is_expired(credentials, now)

Instants == 0..MaxInstant
Buffers == 0..(DEFAULT_REFRESH_BUFFER_MINUTES + 1)

InitPolicy ==
    /\ account \in {IntegrationAccount("realm1", Credentials(1, 1, e), ACTIVE, 0) :
                       e \in Instants}
    /\ probe = NoProbe
    /\ NoSync
    /\ pageSize = 1
    /\ cursors = {}
    /\ objects = {}
    /\ runs = 0
    /\ accounts = {}
    /\ remote = << >>
    /\ cpc = "idle"
    /\ pending = << >>
    /\ results = << >>
    /\ log = << >>
    /\ before = NoTables
    /\ finished = NoneFinished
    /\ latest = NoWrites
    /\ NoWorkflow

policyFrame == <<syncVars, pageSize, cursors, objects, runs, accounts, remote,
                 cpc, account, pending, results, log, before, finished, latest,
                 workflowVars, loops>>

CallNeedsRefresh ==
    \E now \in Instants, buffer \in Buffers :
        /\ probe' = [op |-> "needs_refresh", now |-> now,
                     buffer_minutes |-> buffer,
                     expires_at |-> account.credentials.expires_at,
                     result |-> needs_refresh(account.credentials, buffer, now)]
        /\ UNCHANGED policyFrame

CallIsExpired ==
    \E now \in Instants, buffer \in Buffers :
        /\ probe' = [op |-> "is_expired", now |-> now,
                     buffer_minutes |-> buffer,
                     expires_at |-> account.credentials.expires_at,
                     result |-> is_token_expired(account.credentials, now)]
        /\ UNCHANGED policyFrame

CallShouldRefresh ==
    \E now \in Instants :
        /\ probe' = [op |-> "should_refresh_credentials", now |-> now,
                     buffer_minutes |-> DEFAULT_REFRESH_BUFFER_MINUTES,
                     expires_at |-> account.credentials.expires_at,
                     result |-> should_refresh_credentials(account,
                                    DEFAULT_REFRESH_BUFFER_MINUTES, now)]
        /\ UNCHANGED policyFrame

NextPolicy ==
    \/ CallNeedsRefresh
    \/ CallIsExpired
    \/ CallShouldRefresh

SpecPolicy == InitPolicy /\ [][NextPolicy]_vars

\* C18: for all instants now and expires_at and every buffer >= 0,
\* needs_refresh is true exactly when now >= expires_at - buffer (also through
\* the policy with its default buffer), and is_expired is true exactly when
\* now >= expires_at, whatever the buffer.
C18_RefreshGating ==
    /\ probe.op \in {"needs_refresh", "should_refresh_credentials"}
          => (probe.result <=> probe.now >= probe.expires_at - probe.buffer_minutes)
    /\ probe.op = "is_expired"
          => (probe.result <=> probe.now >= probe.expires_at)

\* the boundary: now is exactly expires_at minus a positive buffer, the token
\* is not yet expired and needs_refresh already answers true
C18_Witness ==
    /\ probe.op = "needs_refresh"
    /\ probe.buffer_minutes > 0
    /\ probe.now = probe.expires_at - probe.buffer_minutes
    /\ probe.result
    /\ ~is_expired(account.credentials, probe.now)

\* ------------------------------------------ the object repository on its own
\* save_batch called with arbitrary lists of RawExternalObject of one account
\* two customers and one invoice with the Id of a customer
StoreIds(object_type) == IF object_type = CUSTOMER THEN {1, 2} ELSE {1}
Payloads == {"a", "b"}
StoreTimes == {1, 2}
BatchLengths == 0..2
NoRow == [object_type |-> "null"]

\* the values dict of one object, lines 79-84 and 103-109
StoredRow(object_type, qbo_id, payload, last_updated_time) ==
    [object_type |-> object_type, qbo_id |-> qbo_id, payload |-> payload,
     last_updated_time |-> last_updated_time]

Identities ==
    {k \in {CUSTOMER, INVOICE} \X {1, 2} : k[2] \in StoreIds(k[1])}

Rows ==
    {StoredRow(k[1], k[2], p, u) : k \in Identities, p \in Payloads,
                                   u \in StoreTimes}

Batches == UNION {[1..n -> Rows] : n \in BatchLengths}

OfType(batch, object_type) ==
    SelectSeq(batch, LAMBDA o : o.object_type = object_type)

\* one INSERT .. ON CONFLICT DO UPDATE over all the values: PostgreSQL rejects
\* the statement when two of its rows have the same conflict key
AffectsRowTwice(rows) ==
    \E i, j \in 1..Len(rows) : i < j /\ rows[i].qbo_id = rows[j].qbo_id

\* lines 54-74: the customers are committed, then the invoices; the result is
\* the table after the call and whether the call raised
save_batch_call(table, batch) ==
    LET customers == OfType(batch, CUSTOMER)
        invoices == OfType(batch, INVOICE)
        afterCustomers == save_batch(table, Range(customers))
    IN  IF AffectsRowTwice(customers)
        THEN [raised |-> TRUE, table |-> table]
        ELSE IF AffectsRowTwice(invoices)
        THEN [raised |-> TRUE, table |-> afterCustomers]
        ELSE [raised |-> FALSE,
              table |-> save_batch(afterCustomers, Range(invoices))]

\* what the call committed: the rows of the statements that did not raise
Committed(batch) ==
    LET customers == OfType(batch, CUSTOMER)
        invoices == OfType(batch, INVOICE)
    IN  IF AffectsRowTwice(customers) THEN {}
        ELSE IF AffectsRowTwice(invoices) THEN Range(customers)
        ELSE Range(batch)

InitStore ==
    /\ objects = {}
    /\ latest = [k \in Identities |-> [row |-> NoRow, replaced |-> FALSE]]
    /\ probe = NoProbe
    /\ NoSync
    /\ NoCycle
    /\ NoWorkflow
    /\ pageSize = 1
    /\ cursors = {}
    /\ runs = 0

CallSaveBatch ==
    \E batch \in Batches :
        /\ objects' = save_batch_call(objects, batch).table
        /\ latest' = [k \in Identities |->
               LET w == {o \in Committed(batch) :
                            o.object_type = k[1] /\ o.qbo_id = k[2]}
               IN  IF w = {} THEN latest[k]
                   ELSE [row |-> CHOOSE o \in w : TRUE,
                         replaced |-> /\ latest[k].row # NoRow
                                      /\ latest[k].row.payload
                                             # (CHOOSE o \in w : TRUE).payload]]
        /\ UNCHANGED <<syncVars, cycleVars, pageSize, cursors, runs, probe,
                       workflowVars, loops>>

NextStore == CallSaveBatch

SpecStore == InitStore /\ [][NextStore]_vars

\* C19: after any sequence of save_batch calls the table holds at most one
\* row per (object type, external object id) of the account, and that row has
\* the payload and the last_updated_time of the last committed write of that
\* identity, with nothing kept of the row it replaced; an identity never
\* written has no row.
C19_UpsertKeepsLatestWrite ==
    \A k \in Identities :
        LET rows == {r \in objects : r.object_type = k[1] /\ r.qbo_id = k[2]}
        IN  /\ Cardinality(rows) <= 1
            /\ latest[k].row = NoRow => rows = {}
            /\ latest[k].row # NoRow => rows = {latest[k].row}

\* the same identity was written twice with different payloads and the table
\* holds one row for it, with the later payload
C19_Witness ==
    \E k \in Identities :
        /\ latest[k].replaced
        /\ Cardinality({r \in objects : r.object_type = k[1] /\ r.qbo_id = k[2]}) = 1
        /\ \E r \in objects : r = latest[k].row

\* --------------------------------------------------------------- run_sync
\* RunIntegrationSyncService.run_sync over the account table, the vendor's
\* token endpoint and the sync of each configured object type. The sync of one
\* type is taken in one step here: its own steps, with the failures of the
\* database and the crashes between them, are those of Spec.
QUICKBOOKS_OBJECT_TYPES == <<CUSTOMER, INVOICE>>
NotFoundText == "Account not found"
\* the external_account_id run_sync is called with: one connected, one unknown
AccountIds == {"realm1", "realm2"}
\* expires_in of the token response, in minutes
ExpiresIn == {0, 60}
\* how many requests of a type's sync are answered before one raises: none
\* raises, or the first one does (the later ones are stepped in Spec)
NoFailure == -1
Budgets == {NoFailure, 0}

\* _to_domain, lines 114-131
to_domain(row) ==
    IntegrationAccount(row.external_account_id,
                       Credentials(row.access_token, row.refresh_token,
                                   row.token_expires_at),
                       row.status, row.updated_at)

\* the columns save writes, lines 41-56
AccountRow(acct) ==
    [external_account_id |-> acct.external_account_id,
     access_token |-> acct.credentials.access_token,
     refresh_token |-> acct.credentials.refresh_token,
     token_expires_at |-> acct.credentials.expires_at,
     status |-> acct.status, updated_at |-> acct.updated_at]

find_any_account(table, integration_type, external_account_id) ==
    {to_domain(r) : r \in table}

find_by_external_id(table, integration_type, external_account_id) ==
    {to_domain(r) : r \in {q \in table :
                              q.external_account_id = external_account_id}}

account_save(table, acct) ==
    {r \in table : r.external_account_id # acct.external_account_id}
        \cup {AccountRow(acct)}

calculate_expiry_time(expires_in, now) == now + expires_in

\* _parse_token_response of the answer to grant_type=refresh_token: the vendor
\* issues a new pair of tokens
refresh_access_token(credentials, expires_in, now) ==
    Credentials(credentials.access_token + 1, credentials.refresh_token + 1,
                calculate_expiry_time(expires_in, now))

update_credentials(acct, credentials, now) ==
    [acct EXCEPT !.credentials = credentials,
                 !.updated_at = now,
                 !.status = IF is_expired(credentials, now) THEN EXPIRED
                            ELSE ACTIVE]

\* the Invoice query differs from the Customer query in the Active clause only
fetch_invoices(v, size, updated_since, position) ==
    LET m == QueryMatches(v, updated_since)
    IN  SubSeq(m, position, Min2(Len(m), position + size - 1))

fetch_objects_from_api(v, size, object_type, updated_since, position) ==
    IF object_type = CUSTOMER
    THEN fetch_customers(v, size, updated_since, position)
    ELSE fetch_invoices(v, size, updated_since, position)

\* lines 100-161 of sync_quickbooks_objects from one request on, with the local
\* cursor c, the local start_position and total_synced and the two tables;
\* the request raises when budget is 0
RECURSIVE SyncLoop(_, _, _, _, _, _, _, _, _)
SyncLoop(v, size, c, position, total, curs, objs, now, budget) ==
    LET page == fetch_objects_from_api(v, size, c.object_type,
                                       get_cursor_value(c), position)
        next_position == position + Len(page)
        stored == save_batch(objs,
                      {RawExternalObject(c.object_type, o) : o \in Range(page)})
        adv == advance_cursor(c, PageMax(page), Len(page), next_position, now)
    IN  IF budget = 0
        THEN [raised |-> TRUE, error |-> FetchErrorText, count |-> total,
              pages |-> 0,
              cursors |-> cursor_save(curs,
                              mark_failure(c, FetchErrorText, position, now)),
              objects |-> objs]
        ELSE IF page = << >>
        THEN [raised |-> FALSE, error |-> NoError, count |-> total,
              pages |-> 0,
              cursors |-> cursor_save(curs, [c EXCEPT !.cursor_data = NoData]),
              objects |-> objs]
        ELSE IF adv.raised
        THEN [raised |-> TRUE, error |-> BackwardText,
              count |-> total + Len(page), pages |-> 1,
              cursors |-> cursor_save(curs,
                              mark_failure(c, BackwardText, next_position, now)),
              objects |-> stored]
        ELSE LET rest == SyncLoop(v, size, adv.cursor, next_position,
                                  total + Len(page),
                                  cursor_save(curs, adv.cursor), stored, now,
                                  IF budget > 0 THEN budget - 1 ELSE budget)
             IN  [rest EXCEPT !.pages = @ + 1]

\* lines 72-161: the result is what the call returned or raised, the number
\* of non-empty pages it fetched and the two tables after it
sync_quickbooks_objects(v, size, object_type, curs, objs, now, budget) ==
    LET found == find_by_composite_key(curs, object_type)
        c0 == IF found = {} THEN NewCursor(object_type, now)
              ELSE CHOOSE r \in found : TRUE
        c1 == mark_attempt(c0, now)
    IN  SyncLoop(v, size, c1, ResumePosition(c1), 0, cursor_save(curs, c1),
                 objs, now, budget)

Tables == [accounts |-> accounts, cursors |-> cursors, objects |-> objects]

\* a call made by run_sync and what it was about: the external account id,
\* how the call ended, or the object type
Event(op, arg) == [op |-> op, arg |-> arg]

\* run_sync is over: it returned results or raised err at the step at
EndCycle(outcome, at, err, events, res) ==
    /\ cpc' = "idle"
    /\ finished' = [outcome |-> outcome, at |-> at, error |-> err,
                    log |-> events, results |-> res,
                    ok |-> /\ outcome = "returned"
                           /\ \A t \in DOMAIN res : res[t].status = "success",
                    due |-> \E e \in Range(events) : e.op = "refresh_due",
                    after_ok |-> finished.ok]
    /\ account' = NoAccount
    /\ pending' = << >>
    /\ results' = << >>
    /\ log' = << >>

\* what ORDERBY MetaData.LastUpdatedTime lists when no two objects of a type
\* were updated at the same instant
VendorLists ==
    {v \in UNION {[1..n -> 1..MaxTs] : n \in 0..MaxRecords} : IsIncreasing(v)}

\* the orchestrator treats the types alike: the vendor holds no invoice, or
\* one
InvoiceLists == {<< >>, <<1>>}

\* a token that the first call finds inside the refresh buffer, at its
\* boundary, and one that no call finds inside it
InitialExpiry ==
    {1 + DEFAULT_REFRESH_BUFFER_MINUTES,
     MaxRuns + 1 + DEFAULT_REFRESH_BUFFER_MINUTES}

InitCycle ==
    /\ accounts \in {{AccountRow(IntegrationAccount("realm1",
                          Credentials(1, 1, e), ACTIVE, 0))} :
                        e \in InitialExpiry}
    /\ remote \in {(CUSTOMER :> c) @@ (INVOICE :> i) :
                      c \in VendorLists, i \in InvoiceLists}
    /\ pageSize \in 1..MaxPageSize
    /\ cursors = {}
    /\ objects = {}
    /\ runs = 0
    /\ cpc = "idle"
    /\ account = NoAccount
    /\ pending = << >>
    /\ results = << >>
    /\ log = << >>
    /\ before = NoTables
    /\ finished = NoneFinished
    /\ probe = NoProbe
    /\ latest = NoWrites
    /\ NoWorkflow
    /\ NoSync

cycleFrame == <<syncVars, pageSize, remote, probe, latest, workflowVars,
                loops>>

\* lines 70-72: no account with that external id
RunSyncNotFound ==
    /\ cpc = "idle"
    /\ runs < MaxRuns
    /\ \E id \in AccountIds :
          /\ find_by_external_id(accounts, QUICKBOOKS, id) = {}
          /\ before' = Tables
          /\ EndCycle("raised", "find", NotFoundText,
                      <<Event("find_by_external_id", id)>>, << >>)
    /\ runs' = runs + 1
    /\ UNCHANGED <<cycleFrame, accounts, cursors, objects>>

\* lines 70-78 and 102: the account found and the policy asked
RunSyncBegin ==
    /\ cpc = "idle"
    /\ runs < MaxRuns
    /\ \E id \in AccountIds :
          LET found == find_by_external_id(accounts, QUICKBOOKS, id)
              acct == CHOOSE a \in found : TRUE
              due == should_refresh_credentials(acct,
                         DEFAULT_REFRESH_BUFFER_MINUTES, runs + 1)
          IN  /\ found # {}
              /\ account' = acct
              /\ cpc' = IF due THEN "refresh" ELSE "types"
              /\ log' = IF due
                        THEN <<Event("find_by_external_id", id),
                               Event("refresh_due", id)>>
                        ELSE <<Event("find_by_external_id", id)>>
    /\ before' = Tables
    /\ pending' = QUICKBOOKS_OBJECT_TYPES
    /\ results' = << >>
    /\ runs' = runs + 1
    /\ UNCHANGED <<cycleFrame, accounts, cursors, objects, finished>>

RefreshExchangeOkUnsaved ==
    /\ cpc = "refresh"
    /\ \E expires_in \in ExpiresIn :
          account' = update_credentials(account,
                         refresh_access_token(account.credentials, expires_in,
                                              runs),
                         runs)
    /\ log' = Append(log, Event("refresh_access_token", "ok"))
    /\ cpc' = "types"
    /\ UNCHANGED <<cycleFrame, accounts, cursors, objects, runs, pending,
                   results, before, finished>>

RefreshExchangeErrorIgnored ==
    /\ cpc = "refresh"
    /\ log' = Append(log, Event("refresh_access_token", "raised"))
    /\ cpc' = "types"
    /\ UNCHANGED <<cycleFrame, accounts, cursors, objects, runs, account,
                   pending, results, before, finished>>

RefreshExchangeOkKeepsAccount ==
    /\ cpc = "refresh"
    /\ log' = Append(log, Event("refresh_access_token", "ok"))
    /\ cpc' = "save_account"
    /\ UNCHANGED <<cycleFrame, accounts, cursors, objects, runs, account,
                   pending, results, before, finished>>

\* lines 106-110: the token endpoint answered
RefreshExchangeOk ==
    /\ cpc = "refresh"
    /\ \E expires_in \in ExpiresIn :
          account' = update_credentials(account,
                         refresh_access_token(account.credentials, expires_in,
                                              runs),
                         runs)
    /\ log' = Append(log, Event("refresh_access_token", "ok"))
    /\ cpc' = "save_account"
    /\ UNCHANGED <<cycleFrame, accounts, cursors, objects, runs, pending,
                   results, before, finished>>

\* lines 107-109 raising (response.raise_for_status): run_sync raises
RefreshExchangeError ==
    /\ cpc = "refresh"
    /\ EndCycle("raised", "refresh", FetchErrorText,
                Append(log, Event("refresh_access_token", "raised")), results)
    /\ UNCHANGED <<cycleFrame, accounts, cursors, objects, runs, before>>

\* line 111, the account committed
SaveAccountOk ==
    /\ cpc = "save_account"
    /\ accounts' = account_save(accounts, account)
    /\ log' = Append(log, Event("account_save", "ok"))
    /\ cpc' = "types"
    /\ UNCHANGED <<cycleFrame, cursors, objects, runs, account, pending,
                   results, before, finished>>

\* line 111 raising: run_sync raises
SaveAccountDbError ==
    /\ cpc = "save_account"
    /\ EndCycle("raised", "save_account", DbErrorText,
                Append(log, Event("account_save", "raised")), results)
    /\ UNCHANGED <<cycleFrame, accounts, cursors, objects, runs, before>>

SyncObjectTypeAborting ==
    /\ cpc = "types"
    /\ pending # << >>
    /\ \E budget \in Budgets :
          LET object_type == Head(pending)
              r == sync_quickbooks_objects(remote[object_type], pageSize,
                       object_type, cursors, objects, runs, budget)
              events == Append(Append(log,
                            Event("api_client",
                                  account.credentials.access_token)),
                            Event("fetch", object_type))
          IN  /\ cursors' = r.cursors
              /\ objects' = r.objects
              /\ IF r.raised
                 THEN EndCycle("raised", "types", r.error, events, results)
                 ELSE /\ results' = results @@ (object_type :>
                              [status |-> "success", count |-> r.count,
                               has_more |-> FALSE, pages |-> r.pages])
                      /\ log' = events
                      /\ pending' = Tail(pending)
                      /\ UNCHANGED <<cpc, account, finished>>
    /\ UNCHANGED <<cycleFrame, accounts, runs, before>>

SyncObjectTypeMoreAfterPages ==
    /\ cpc = "types"
    /\ pending # << >>
    /\ \E budget \in Budgets :
          LET object_type == Head(pending)
              r == sync_quickbooks_objects(remote[object_type], pageSize,
                       object_type, cursors, objects, runs, budget)
          IN  /\ cursors' = r.cursors
              /\ objects' = r.objects
              /\ results' = results @@ (object_type :>
                     IF r.raised
                     THEN [status |-> "error", error |-> r.error,
                           pages |-> r.pages]
                     ELSE [status |-> "success", count |-> r.count,
                           has_more |-> r.pages > 0, pages |-> r.pages])
              /\ log' = Append(Append(log,
                                Event("api_client",
                                      account.credentials.access_token)),
                                Event("fetch", object_type))
    /\ pending' = Tail(pending)
    /\ UNCHANGED <<cycleFrame, accounts, runs, cpc, account, before, finished>>

\* lines 81-91: the next object type synced, its exception caught; pages is
\* the number of non-empty pages its sync fetched
\* and api_client the access token its QuickBooksAPIClient was built with
SyncObjectType ==
    /\ cpc = "types"
    /\ pending # << >>
    /\ \E budget \in Budgets :
          LET object_type == Head(pending)
              r == sync_quickbooks_objects(remote[object_type], pageSize,
                       object_type, cursors, objects, runs, budget)
          IN  /\ cursors' = r.cursors
              /\ objects' = r.objects
              /\ results' = results @@ (object_type :>
                     IF r.raised
                     THEN [status |-> "error", error |-> r.error,
                           pages |-> r.pages]
                     ELSE [status |-> "success", count |-> r.count,
                           has_more |-> FALSE, pages |-> r.pages])
              /\ log' = Append(Append(log,
                                Event("api_client",
                                      account.credentials.access_token)),
                                Event("fetch", object_type))
    /\ pending' = Tail(pending)
    /\ UNCHANGED <<cycleFrame, accounts, runs, cpc, account, before, finished>>

ReturnResultsRaising ==
    /\ cpc = "types"
    /\ pending = << >>
    /\ IF \E t \in DOMAIN results : results[t].status = "error"
       THEN EndCycle("raised", "return", FetchErrorText, log, results)
       ELSE EndCycle("returned", "return", NoError, log, results)
    /\ UNCHANGED <<cycleFrame, accounts, cursors, objects, runs, before>>

\* line 93
ReturnResults ==
    /\ cpc = "types"
    /\ pending = << >>
    /\ EndCycle("returned", "return", NoError, log, results)
    /\ UNCHANGED <<cycleFrame, accounts, cursors, objects, runs, before>>

NextCycle ==
    \/ RunSyncNotFound
    \/ RunSyncBegin
    \/ RefreshExchangeOk
    \/ RefreshExchangeError
    \/ SaveAccountOk
    \/ SaveAccountDbError
    \/ SyncObjectType
    \/ ReturnResults

SpecCycle == InitCycle /\ [][NextCycle]_vars

CycleTypeOK ==
    /\ cpc \in {"idle", "refresh", "save_account", "types"}
    /\ runs \in 0..MaxRuns
    /\ Cardinality(accounts) = 1
    /\ Cardinality(cursors) <= Len(QUICKBOOKS_OBJECT_TYPES)
    /\ \A t \in {CUSTOMER, INVOICE} :
           Cardinality(find_by_composite_key(cursors, t)) <= 1

\* ------------------------------------------------------- claims on run_sync
CursorOf(table, object_type) ==
    CHOOSE r \in table : r.object_type = object_type

Returned == cpc = "idle" /\ finished.outcome = "returned"
Raised(at) == cpc = "idle" /\ finished.outcome = "raised" /\ finished.at = at

\* C11: end to end. The account has no cursor for the customer type and the
\* vendor holds one or more customers with distinct, increasing update times,
\* which it serves in pages; when run_sync returns success for the type, its
\* cursor has status success, records_synced equal to the number of the
\* vendor's customers, no resume token and the update time of the last
\* customer as last_synced_at, and that many distinct customers are stored.
C11_EndToEnd ==
    (/\ Returned
     /\ find_by_composite_key(before.cursors, CUSTOMER) = {}
     /\ Len(remote[CUSTOMER]) >= 1
     /\ finished.results[CUSTOMER].status = "success")
        => LET c == CursorOf(cursors, CUSTOMER)
               n == Len(remote[CUSTOMER])
           IN  /\ c.status = SUCCESS
               /\ c.records_synced = n
               /\ c.cursor_data = NoData
               /\ c.last_synced_at = remote[CUSTOMER][n]
               /\ Cardinality({r.qbo_id : r \in
                      {q \in objects : q.object_type = CUSTOMER}}) = n

\* the calls of the run_sync call that is running or, when none is, of the
\* last one
Calls == IF cpc = "idle" THEN finished.log ELSE log
HasCall(op, arg) == \E i \in 1..Len(Calls) : Calls[i] = Event(op, arg)
Fetched == \E i \in 1..Len(Calls) : Calls[i].op = "fetch"
ObjectTypes == Range(QUICKBOOKS_OBJECT_TYPES)
LastSyncedAt(table, object_type) ==
    IF find_by_composite_key(table, object_type) = {} THEN NoneTs
    ELSE CursorOf(table, object_type).last_synced_at
RecordsSynced(table, object_type) ==
    IF find_by_composite_key(table, object_type) = {} THEN 0
    ELSE CursorOf(table, object_type).records_synced

\* type a's first request raised and type b's requests were all answered
FailedAndSucceeded(a, b) ==
    /\ Returned
    /\ finished.results[a].status = "error"
    /\ finished.results[a].error = FetchErrorText
    /\ finished.results[a].pages = 0
    /\ finished.results[b].status = "success"

\* C14: per-type isolation. A run_sync call that got as far as the object
\* types returns a result for every configured type, whatever the sync of a
\* type raised; and when the fetch of type A raised while the fetches of type
\* B were answered, B is reported as success with its count, B's cursor has
\* advanced by that count (and to a later last_synced_at when the count is
\* positive), and A's last_synced_at and records_synced are as before the
\* call, whichever of the two types is the first in the configured order.
C14_PerTypeIsolation ==
    /\ (cpc = "idle" /\ finished.at \in {"types", "return"})
          => /\ finished.outcome = "returned"
             /\ DOMAIN finished.results = ObjectTypes
    /\ \A a, b \in ObjectTypes :
          (a # b /\ FailedAndSucceeded(a, b))
              => /\ HasCall("fetch", b)
                 /\ RecordsSynced(cursors, b)
                        = RecordsSynced(before.cursors, b)
                              + finished.results[b].count
                 /\ LastSyncedAt(cursors, b) >= LastSyncedAt(before.cursors, b)
                 /\ finished.results[b].count > 0
                        => /\ CursorOf(cursors, b).status = SUCCESS
                           /\ LastSyncedAt(cursors, b) # NoneTs
                 /\ LastSyncedAt(cursors, a) = LastSyncedAt(before.cursors, a)
                 /\ RecordsSynced(cursors, a) = RecordsSynced(before.cursors, a)

\* the first type of the configured order failed and the second one, synced
\* after it, stored its objects and moved its cursor
C14_Witness ==
    /\ FailedAndSucceeded(CUSTOMER, INVOICE)
    /\ finished.results[INVOICE].count >= 1
    /\ LastSyncedAt(cursors, INVOICE) > LastSyncedAt(before.cursors, INVOICE)
    /\ CursorOf(cursors, CUSTOMER).status = FAILURE
    /\ \E r \in objects : r.object_type = INVOICE

\* the account as run_sync found it
AccountBefore == CHOOSE r \in before.accounts :
                     r.external_account_id = Calls[1].arg

\* C15: in a run_sync call that finds the refresh due, every fetch of any
\* object type comes after the refresh-token exchange and after the save of
\* the account, in that order, and the account table already holds the new
\* credentials.
C15_RefreshBeforeFirstFetch ==
    (HasCall("refresh_due", "realm1") /\ Fetched)
        => /\ \E i, j, k \in 1..Len(Calls) :
                 /\ i < j /\ j < k
                 /\ Calls[i] = Event("refresh_access_token", "ok")
                 /\ Calls[j] = Event("account_save", "ok")
                 /\ \A f \in 1..Len(Calls) : Calls[f].op = "fetch" => k <= f
           /\ \A r \in accounts :
                 r.external_account_id = "realm1"
                     => r.access_token # AccountBefore.access_token

\* the refresh was due, the new credentials were saved and both types were
\* then fetched
C15_Witness ==
    /\ Returned
    /\ finished.due
    /\ HasCall("account_save", "ok")
    /\ HasCall("fetch", CUSTOMER)
    /\ HasCall("fetch", INVOICE)
    /\ accounts # before.accounts

\* C16: when the refresh-token exchange fails (or the save of the refreshed
\* account does), run_sync raises: no object type is attempted, no fetch is
\* issued, and the account, cursor and object tables are what they were
\* before the call.
C16_RefreshFailureAborts ==
    (HasCall("refresh_access_token", "raised") \/ HasCall("account_save", "raised"))
        => /\ cpc = "idle"
           /\ finished.outcome = "raised"
           /\ finished.at \in {"refresh", "save_account"}
           /\ finished.results = << >>
           /\ ~Fetched
           /\ Tables = before

\* the exchange raised in a call that found the refresh due
C16_Witness ==
    /\ Raised("refresh")
    /\ finished.due
    /\ finished.error = FetchErrorText
    /\ HasCall("refresh_access_token", "raised")
    /\ Tables = before

\* C17: run_sync for an external account id that no account has raises the
\* not-found error after the one lookup, before any refresh or fetch, and
\* leaves the three tables unchanged.
C17_UnknownAccountNotFound ==
    (Calls # << >>
        /\ \A r \in before.accounts : r.external_account_id # Calls[1].arg)
        => /\ Raised("find")
           /\ finished.error = NotFoundText
           /\ Calls = <<Event("find_by_external_id", Calls[1].arg)>>
           /\ Tables = before

\* the unknown account was asked for after a call that had synced the known one
C17_Witness ==
    /\ Raised("find")
    /\ finished.log = <<Event("find_by_external_id", "realm2")>>
    /\ cursors # {}
    /\ Tables = before

\* C20: a run_sync call that returns success for every type right after a
\* call that returned success for every type, the vendor's data unchanged,
\* leaves the stored objects and every cursor's last_synced_at and
\* records_synced as the first of the two calls left them.
C20_SecondCycleChangesNothing ==
    (Returned /\ finished.ok /\ finished.after_ok)
        => /\ objects = before.objects
           /\ \A t \in ObjectTypes :
                 /\ LastSyncedAt(cursors, t) = LastSyncedAt(before.cursors, t)
                 /\ RecordsSynced(cursors, t) = RecordsSynced(before.cursors, t)

\* ----------------------------------- the workflow, its activity, the endpoint
\* POST /auth/quickbooks/connect, IntegrationSyncWorkflow.run and the
\* executions of the activity run_integration_sync. The Temporal service keeps
\* the open workflow executions, refuses to start a second one under an id
\* that is open, starts the attempts of an activity one after the other and
\* gives an attempt up when its start_to_close_timeout has passed; the
\* activity sends no heartbeat, so the service learns nothing of an attempt
\* between its start and its end.
maximum_attempts == 3
\* expires_in of the answer to the code exchange, in minutes
ConnectExpiresIn == 60

\* f"{self.integration_type.value}-{self.external_account_id}"
get_workflow_id(integration_type, external_account_id) ==
    integration_type \o "-" \o external_account_id

\* settings.sync_interval_minutes
sync_interval_minutes == 5

\* an open execution of IntegrationSyncWorkflow with the arguments of its run
\* method: run counts its continue_as_new, attempt the attempts of its
\* execute_activity
WorkflowExecution(id, integration_type, account_id, interval, run, step, attempt) ==
    [id |-> id, integration_type |-> integration_type,
     external_account_id |-> account_id,
     sync_interval_minutes |-> interval, run |-> run, step |-> step,
     attempt |-> attempt]

\* one execution of the activity function on a worker
ActivityExecution(w) ==
    [external_account_id |-> w.external_account_id, run |-> w.run,
     attempt |-> w.attempt]

OpenWorkflows(id) == {w \in workflows : w.id = id}

\* the attempt the service is waiting for is running on a worker
CurrentAttemptRuns(w) ==
    w.step = "activity" /\ ActivityExecution(w) \in executing

\* _parse_token_response of the answer to grant_type=authorization_code
exchange_code_for_tokens(expires_in, now) ==
    Credentials(1, 1, calculate_expiry_time(expires_in, now))

InitWorkflow ==
    /\ accounts = {}
    /\ workflows = {}
    /\ executing = {}
    /\ response = NoResponse
    /\ loops = << >>
    /\ remote = << >>
    /\ cpc = "idle"
    /\ account = NoAccount
    /\ pending = << >>
    /\ results = << >>
    /\ log = << >>
    /\ before = NoTables
    /\ finished = NoneFinished
    /\ probe = NoProbe
    /\ latest = NoWrites
    /\ NoSync
    /\ pageSize = 1
    /\ cursors = {}
    /\ objects = {}
    /\ runs = 0

workflowFrame == <<syncVars, pageSize, cursors, objects, runs, remote, cpc,
                   account, pending, results, log, before, finished, probe,
                   latest, loops>>

\* lines 48-56: the token exchange raised, HTTP 400
ConnectExchangeError ==
    /\ \E realm_id \in AccountIds :
          response' = [NoResponse EXCEPT !.realm_id = realm_id, !.status = 400]
    /\ UNCHANGED <<workflowFrame, accounts, workflows, executing>>

\* lines 48-117 with start_workflow answered: the account saved, then the
\* workflow started, or found already started under the account's id
ConnectStartWorkflow ==
    /\ \E realm_id \in AccountIds :
          LET acct == IntegrationAccount(realm_id,
                          exchange_code_for_tokens(ConnectExpiresIn, 0),
                          ACTIVE, 0)
              workflow_id == get_workflow_id(QUICKBOOKS,
                                             acct.external_account_id)
              open == OpenWorkflows(workflow_id) # {}
          IN  /\ accounts' = account_save(accounts, acct)
              /\ workflows' =
                     IF open THEN workflows
                     ELSE workflows \cup
                          {WorkflowExecution(workflow_id, QUICKBOOKS, realm_id,
                                             sync_interval_minutes, 1,
                                             "scheduled", 1)}
              /\ response' = [realm_id |-> realm_id,
                              workflow_id |-> workflow_id,
                              workflow_started |-> TRUE, already |-> open,
                              status |-> 200]
    /\ UNCHANGED <<workflowFrame, executing>>

\* lines 95-103: Client.connect or start_workflow raised something else
ConnectTemporalError ==
    /\ \E realm_id \in AccountIds :
          /\ accounts' = account_save(accounts,
                 IntegrationAccount(realm_id,
                     exchange_code_for_tokens(ConnectExpiresIn, 0), ACTIVE, 0))
          /\ response' = [realm_id |-> realm_id, workflow_id |-> "null",
                          workflow_started |-> FALSE, already |-> FALSE,
                          status |-> 200]
    /\ UNCHANGED <<workflowFrame, workflows, executing>>

\* workflows.py lines 52-62, worker.py lines 28-33: a worker with a free slot
\* takes the attempt the workflow waits for and enters run_integration_sync
ActivityStart ==
    \E w \in workflows :
        /\ w.step = "scheduled"
        /\ Cardinality(executing) < MaxConcurrent
        /\ executing' = executing \cup {ActivityExecution(w)}
        /\ workflows' = (workflows \ {w}) \cup {[w EXCEPT !.step = "activity"]}
        /\ UNCHANGED <<workflowFrame, accounts, response>>

AfterFailedAttemptFails(w) ==
    IF w.attempt < maximum_attempts
    THEN [w EXCEPT !.step = "scheduled", !.attempt = @ + 1]
    ELSE [w EXCEPT !.step = "failed"]

\* what the workflow does when an attempt is over without a result: the retry
\* policy schedules the next attempt; after maximum_attempts the exception
\* reaches the except of lines 66-67 and the workflow goes on to its sleep
AfterFailedAttempt(w) ==
    IF w.attempt < maximum_attempts
    THEN [w EXCEPT !.step = "scheduled", !.attempt = @ + 1]
    ELSE [w EXCEPT !.step = "sleep"]

\* activities.py lines 55-58: run_sync returned, the workflow has its results
ActivityReturn ==
    \E w \in workflows :
        /\ CurrentAttemptRuns(w)
        /\ executing' = executing \ {ActivityExecution(w)}
        /\ workflows' = (workflows \ {w}) \cup {[w EXCEPT !.step = "sleep"]}
        /\ UNCHANGED <<workflowFrame, accounts, response>>

\* activities.py lines 60-64: run_sync raised, the activity re-raises
ActivityRaise ==
    \E w \in workflows :
        /\ CurrentAttemptRuns(w)
        /\ executing' = executing \ {ActivityExecution(w)}
        /\ workflows' = (workflows \ {w}) \cup {AfterFailedAttempt(w)}
        /\ UNCHANGED <<workflowFrame, accounts, response>>

\* workflows.py line 55: ten minutes after the attempt started the service
\* gives it up; the function is still running on its worker
ActivityTimeout ==
    \E w \in workflows :
        /\ CurrentAttemptRuns(w)
        /\ workflows' = (workflows \ {w}) \cup {AfterFailedAttempt(w)}
        /\ UNCHANGED <<workflowFrame, accounts, response, executing>>

\* an attempt the service has given up returns or raises: nobody waits for it
AbandonedAttemptEnds ==
    \E e \in executing :
        /\ \A w \in workflows : ~(w.step = "activity" /\ ActivityExecution(w) = e)
        /\ executing' = executing \ {e}
        /\ UNCHANGED <<workflowFrame, accounts, response, workflows>>

\* workflows.py lines 69-91: has_more is False in every result, so the
\* workflow sleeps, then continues as new under the same id
ContinueAsNew ==
    \E w \in workflows :
        /\ w.step = "sleep"
        /\ w.run < MaxRuns
        /\ workflows' = (workflows \ {w}) \cup
               {WorkflowExecution(w.id, w.integration_type,
                                  w.external_account_id,
                                  w.sync_interval_minutes, w.run + 1,
                                  "scheduled", 1)}
        /\ UNCHANGED <<workflowFrame, accounts, response, executing>>

NextWorkflow ==
    \/ ConnectExchangeError
    \/ ConnectStartWorkflow
    \/ ConnectTemporalError
    \/ ActivityStart
    \/ ActivityReturn
    \/ ActivityRaise
    \/ ActivityTimeout
    \/ AbandonedAttemptEnds
    \/ ContinueAsNew

SpecWorkflow == InitWorkflow /\ [][NextWorkflow]_vars

InFlight(external_account_id) ==
    {e \in executing : e.external_account_id = external_account_id}

\* C21: for every account at most one workflow execution is open and at most
\* one execution of the activity run_integration_sync is in flight at any
\* time, across repeated connect requests, continue-as-new and the retries of
\* the activity after a failure or after its start-to-close timeout.
C21_OneCycleInFlightPerAccount ==
    \A id \in AccountIds :
        /\ Cardinality(OpenWorkflows(get_workflow_id(QUICKBOOKS, id))) <= 1
        /\ Cardinality(InFlight(id)) <= 1

\* ------------------------------------- the sync loops of two types interleaved
\* sync_quickbooks_objects called for the two object types of one account at
\* the same time, each call with its own locals, both on the cursor table and
\* the object tables: the steps of the two calls interleave at every await and
\* between any two commits. A call whose budget is 0 has its first request
\* raise.
LoopLocals(c, position, total, page, err, at, budget) ==
    [pc |-> at, cursor |-> c, start_position |-> position,
     total_synced |-> total, qb_objects |-> page, error |-> err,
     budget |-> budget]

InitPair ==
    /\ remote \in {(CUSTOMER :> c) @@ (INVOICE :> i) :
                      c \in VendorLists, i \in InvoiceLists}
    /\ pageSize \in 1..MaxPageSize
    /\ loops \in [Range(QUICKBOOKS_OBJECT_TYPES) ->
                     {LoopLocals(NewCursor(CUSTOMER, 0), 1, 0, << >>, NoError,
                                 "idle", b) : b \in Budgets}]
    /\ cursors = {}
    /\ objects = {}
    /\ runs = 1
    /\ accounts = {}
    /\ cpc = "idle"
    /\ account = NoAccount
    /\ pending = << >>
    /\ results = << >>
    /\ log = << >>
    /\ before = NoTables
    /\ finished = NoneFinished
    /\ probe = NoProbe
    /\ latest = NoWrites
    /\ workflows = {}
    /\ executing = {}
    /\ response = NoResponse
    /\ NoSync

pairFrame == <<syncVars, pageSize, runs, remote, accounts, cpc, account,
               pending, results, log, before, finished, probe, latest,
               workflowVars>>

\* lines 72-98 of the call for object type t
PairStart(t) ==
    /\ loops[t].pc = "idle"
    /\ LET found == find_by_composite_key(cursors, t)
           c0 == IF found = {} THEN NewCursor(t, runs)
                 ELSE CHOOSE r \in found : TRUE
           c1 == mark_attempt(c0, runs)
       IN  /\ cursors' = cursor_save(cursors, c1)
           /\ loops' = [loops EXCEPT ![t] =
                  [@ EXCEPT !.pc = "fetch", !.cursor = c1,
                            !.start_position = ResumePosition(c1)]]
    /\ UNCHANGED <<pairFrame, objects>>

\* lines 103-112
PairFetch(t) ==
    /\ loops[t].pc = "fetch"
    /\ loops[t].budget # 0
    /\ LET page == fetch_objects_from_api(remote[t], pageSize, t,
                       get_cursor_value(loops[t].cursor),
                       loops[t].start_position)
       IN  loops' = [loops EXCEPT ![t] =
               [@ EXCEPT !.qb_objects = page,
                         !.pc = IF page = << >> THEN "finalize"
                                ELSE "persist"]]
    /\ UNCHANGED <<pairFrame, cursors, objects>>

\* lines 103-108 raising
PairFetchError(t) ==
    /\ loops[t].pc = "fetch"
    /\ loops[t].budget = 0
    /\ loops' = [loops EXCEPT ![t] =
           [@ EXCEPT !.pc = "handler", !.error = FetchErrorText]]
    /\ UNCHANGED <<pairFrame, cursors, objects>>

\* lines 114-136
PairPersist(t) ==
    /\ loops[t].pc = "persist"
    /\ objects' = save_batch(objects,
                     {RawExternalObject(t, o) : o \in Range(loops[t].qb_objects)})
    /\ loops' = [loops EXCEPT ![t] =
           [@ EXCEPT !.total_synced = @ + Len(loops[t].qb_objects),
                     !.start_position = @ + Len(loops[t].qb_objects),
                     !.pc = "checkpoint"]]
    /\ UNCHANGED <<pairFrame, cursors>>

\* lines 139-144
PairCheckpoint(t) ==
    /\ loops[t].pc = "checkpoint"
    /\ LET adv == advance_cursor(loops[t].cursor, PageMax(loops[t].qb_objects),
                      Len(loops[t].qb_objects), loops[t].start_position, runs)
       IN  IF adv.raised
           THEN /\ loops' = [loops EXCEPT ![t] =
                       [@ EXCEPT !.pc = "handler", !.error = BackwardText]]
                /\ UNCHANGED cursors
           ELSE /\ loops' = [loops EXCEPT ![t] =
                       [@ EXCEPT !.pc = "fetch", !.cursor = adv.cursor,
                                 !.budget = IF @ > 0 THEN @ - 1 ELSE @]]
                /\ cursors' = cursor_save(cursors, adv.cursor)
    /\ UNCHANGED <<pairFrame, objects>>

\* lines 148-155
PairFinalize(t) ==
    /\ loops[t].pc = "finalize"
    /\ LET c == [loops[t].cursor EXCEPT !.cursor_data = NoData]
       IN  /\ cursors' = cursor_save(cursors, c)
           /\ loops' = [loops EXCEPT ![t] =
                  [@ EXCEPT !.pc = "returned", !.cursor = c]]
    /\ UNCHANGED <<pairFrame, objects>>

\* lines 157-161
PairHandler(t) ==
    /\ loops[t].pc = "handler"
    /\ LET c == mark_failure(loops[t].cursor, loops[t].error,
                             loops[t].start_position, runs)
       IN  /\ cursors' = cursor_save(cursors, c)
           /\ loops' = [loops EXCEPT ![t] =
                  [@ EXCEPT !.pc = "raised", !.cursor = c]]
    /\ UNCHANGED <<pairFrame, objects>>

NextPair ==
    \E t \in Range(QUICKBOOKS_OBJECT_TYPES) :
        \/ PairStart(t)
        \/ PairFetch(t)
        \/ PairFetchError(t)
        \/ PairPersist(t)
        \/ PairCheckpoint(t)
        \/ PairFinalize(t)
        \/ PairHandler(t)

SpecPair == InitPair /\ [][NextPair]_vars

\* the two calls one after the other, the customers first
Sequentially ==
    LET first == sync_quickbooks_objects(remote[CUSTOMER], pageSize, CUSTOMER,
                     {}, {}, runs, loops[CUSTOMER].budget)
    IN  sync_quickbooks_objects(remote[INVOICE], pageSize, INVOICE,
            first.cursors, first.objects, runs, loops[INVOICE].budget)

Over(t) == loops[t].pc \in {"returned", "raised"}
OfObjectType(table, t) == {r \in table : r.object_type = t}

\* C22: in every interleaving of the steps of the sync loops of the two object
\* types of one account, the cursor table has at most one row per type, the
\* row of a type is the one its own loop saved last, the objects of every
\* checkpointed page of a type are stored, and when both loops are over the
\* cursors and the stored objects are those the two loops leave when run one
\* after the other.
C22_InterleavedTypesAsSequential ==
    /\ \A t \in ObjectTypes :
          /\ Cardinality(OfObjectType(cursors, t)) <= 1
          /\ loops[t].pc # "idle"
                => /\ OfObjectType(cursors, t) # {}
                   /\ loops[t].pc \in {"fetch", "persist", "returned", "raised"}
                         => CursorOf(cursors, t) = loops[t].cursor
                   /\ CursorOf(cursors, t).records_synced
                         <= Cardinality(OfObjectType(objects, t))
          /\ loops[t].pc = "idle"
                => OfObjectType(cursors, t) = {} /\ OfObjectType(objects, t) = {}
    /\ (\A t \in ObjectTypes : Over(t))
          => /\ cursors = Sequentially.cursors
             /\ objects = Sequentially.objects

\* both loops returned, each after the checkpoint of at least one page, with
\* the objects of both types stored
C22_Witness ==
    /\ \A t \in ObjectTypes : loops[t].pc = "returned"
    /\ \A t \in ObjectTypes : CursorOf(cursors, t).records_synced >= 1
    /\ Cardinality(objects) >= 3
    /\ cursors = Sequentially.cursors

\* C23: every entry of the result map run_sync returns, of a type that
\* succeeded and of a type that failed alike, carries the fields status
\* (success or error), count and has_more.
C23_EveryResultHasThreeFields ==
    Returned
        => \A t \in DOMAIN finished.results :
               /\ {"status", "count", "has_more"}
                      \subseteq DOMAIN finished.results[t]
               /\ finished.results[t].status \in {"success", "error"}

\* ----------------------------------- the IntegrationAccount entity on its own
\* IntegrationAccount constructed and its methods called directly, in any
\* order and with any Credentials; a token is an integer, the empty string 0
EmptyToken == 0
ERROR == "error"
DISCONNECTED == "disconnected"
Tokens == {EmptyToken, 1, 2}
ExpiryTimes == {1, MaxRuns + 1}

\* __post_init__: whether the constructor raises ValueError
post_init(acct) ==
    \/ acct.external_account_id = ""
    \/ acct.credentials.access_token = EmptyToken
    \/ acct.credentials.refresh_token = EmptyToken

mark_error(acct, now) ==
    [acct EXCEPT !.status = ERROR, !.updated_at = now]

mark_disconnected(acct, now) ==
    [acct EXCEPT !.status = DISCONNECTED, !.updated_at = now]

AnyCredentials ==
    {Credentials(a, r, e) : a \in Tokens, r \in Tokens, e \in ExpiryTimes}

NoAccountCall ==
    [op |-> "none", before |-> NoAccount, credentials |-> Credentials(1, 1, 1),
     now |-> 0, raised |-> FALSE]

InitAccount ==
    /\ account = NoAccount
    /\ probe = NoAccountCall
    /\ runs = 0
    /\ NoSync
    /\ NoWorkflow
    /\ pageSize = 1
    /\ cursors = {}
    /\ objects = {}
    /\ accounts = {}
    /\ remote = << >>
    /\ cpc = "idle"
    /\ pending = << >>
    /\ results = << >>
    /\ log = << >>
    /\ before = NoTables
    /\ finished = NoneFinished
    /\ latest = NoWrites

accountFrame == <<syncVars, workflowVars, loops, pageSize, cursors, objects,
                  accounts, remote, cpc, pending, results, log, before,
                  finished, latest>>

\* the dataclass constructor followed by __post_init__, lines 55-70 of integration_account.py
Construct ==
    /\ account = NoAccount
    /\ \E credentials \in AnyCredentials :
          LET acct == IntegrationAccount("realm1", credentials, ACTIVE, runs)
          IN  /\ account' = IF post_init(acct) THEN NoAccount ELSE acct
              /\ probe' = [op |-> "construct", before |-> account,
                           credentials |-> credentials, now |-> runs,
                           raised |-> post_init(acct)]
    /\ UNCHANGED <<accountFrame, runs>>

Tick == IF runs < MaxRuns THEN {runs, runs + 1} ELSE {runs}

CallUpdateCredentials ==
    /\ account # NoAccount
    /\ \E credentials \in AnyCredentials, now \in Tick :
          /\ account' = update_credentials(account, credentials, now)
          /\ probe' = [op |-> "update_credentials", before |-> account,
                       credentials |-> credentials, now |-> now,
                       raised |-> FALSE]
          /\ runs' = now
    /\ UNCHANGED accountFrame

CallMarkError ==
    /\ account # NoAccount
    /\ \E now \in Tick :
          /\ account' = mark_error(account, now)
          /\ probe' = [NoAccountCall EXCEPT !.op = "mark_error",
                                            !.before = account, !.now = now]
          /\ runs' = now
    /\ UNCHANGED accountFrame

CallMarkDisconnected ==
    /\ account # NoAccount
    /\ \E now \in Tick :
          /\ account' = mark_disconnected(account, now)
          /\ probe' = [NoAccountCall EXCEPT !.op = "mark_disconnected",
                                            !.before = account, !.now = now]
          /\ runs' = now
    /\ UNCHANGED accountFrame

NextAccount ==
    \/ Construct
    \/ CallUpdateCredentials
    \/ CallMarkError
    \/ CallMarkDisconnected

SpecAccount == InitAccount /\ [][NextAccount]_vars

\* C24: in every state of an account, after its construction and after any
\* sequence of update_credentials, mark_error and mark_disconnected calls, the
\* access token and the refresh token are non-empty; a credential update
\* replaces access token, refresh token and expiry together, and the two mark
\* calls leave the credentials as they are.
C24_TokensNeverEmpty ==
    account # NoAccount
        => /\ account.credentials.access_token # EmptyToken
           /\ account.credentials.refresh_token # EmptyToken
           /\ probe.op = "update_credentials"
                 => account.credentials = probe.credentials
           /\ probe.op \in {"mark_error", "mark_disconnected"}
                 => account.credentials = probe.before.credentials

\* ------------------------------------------- more claims on the sync loop
\* the durable resume token of the cursor
ResumeToken == TheCursor.cursor_data

IdleAfterRun == pc = "idle" /\ trail # << >> /\ cursors # {}

\* the last run got past its first cursor save and left the row in the status
\* of a page checkpoint or of a recorded failure
LastRunCheckpointed ==
    /\ LastRun.outcome # "success"
    /\ LastRun.at # "start"
    /\ TheCursor.status \in {SUCCESS, FAILURE}

ResumeTokenOnlyWhileIncomplete ==
    IdleAfterRun
        => /\ ResumeToken # NoData => LastRun.outcome # "success"
           /\ LastRunCheckpointed => ResumeToken # NoData

\* C25: whenever no run is in progress, a non-null durable resume token means
\* that the most recent run did not complete successfully, and a most recent
\* run that failed or crashed after a failure or page checkpoint of its own
\* leaves the token non-null; a non-null token becomes null only in the last
\* save of a run that completes successfully.
C25_ResumeTokenOnlyWhileIncomplete ==
    [][/\ ResumeTokenOnlyWhileIncomplete'
       /\ (cursors # {} /\ ResumeToken # NoData /\ ResumeToken' = NoData)
              => /\ pc = "finalize"
                 /\ Ended("success")']_vars

\* a failed run left a token and the run after it completed and cleared it
C25_Witness ==
    /\ Ended("success")
    /\ Len(trail) = 2
    /\ trail[1].outcome = "raised" /\ trail[1].recorded
    /\ trail[1].upto > 1
    /\ LastRun.from = trail[1].upto
    /\ ResumeToken = NoData

\* C26: a run whose pages arrive with update times out of strict order (the
\* maximum of a later page below that of an earlier page) raises no
\* backward-movement error, and when it terminates successfully
\* last_synced_at is the maximum over all its pages.
C26_OutOfOrderPagesSucceed ==
    /\ error # BackwardText
    /\ \A i \in 1..Len(trail) : trail[i].cause # BackwardText
    /\ (Ended("success") /\ LastRun.pages >= 1 /\ cursors # {})
          => TheCursor.last_synced_at = SetMax(observed)

PastFirstSave ==
    pc # "idle" \/ \E i \in 1..Len(trail) : trail[i].at # "start"

\* C27 (as claimed): the cursor table has at most one row per account and
\* type; the row exists as soon as the type's sync has been attempted once,
\* also when the attempt failed, and no step removes it.
C27_RowOnceAttempted ==
    /\ Cardinality(cursors) <= 1
    /\ (pc # "idle" \/ trail # << >>) => cursors # {}

\* C27 (amended): the same, where attempted means that the first cursor save
\* of an attempt has committed: an attempt whose first save raises, before
\* the try block, leaves no row when there was none.
C27_RowOnceFirstSaveCommitted ==
    /\ Cardinality(cursors) <= 1
    /\ PastFirstSave => cursors # {}
    /\ ~PastFirstSave => cursors = {}

\* the only attempt so far failed at its first fetch and the row is there
C27_Witness ==
    /\ Len(trail) = 1
    /\ Ended("raised")
    /\ LastRun.at = "fetch"
    /\ LastRun.pages = 0
    /\ Cardinality(cursors) = 1
    /\ TheCursor.last_synced_at = NoneTs

\* C28: whenever the account exists and the credential step succeeded or was
\* not needed, run_sync raises nothing: it goes through every configured
\* object type, each exactly once, and returns one result entry for each,
\* however many of their sync loops failed.
C28_ReturnsOneEntryPerType ==
    /\ cpc = "types"
          => /\ DOMAIN results \cup Range(pending) = ObjectTypes
             /\ DOMAIN results \cap Range(pending) = {}
             /\ Len(pending) = Cardinality(Range(pending))
    /\ (cpc = "idle" /\ finished.at \notin {"none", "find", "refresh",
                                            "save_account"})
          => /\ finished.outcome = "returned"
             /\ DOMAIN finished.results = ObjectTypes
             /\ \A t \in ObjectTypes :
                    finished.results[t].status \in {"success", "error"}

\* the sync loops of all the types failed and run_sync returned
C28_Witness ==
    /\ Returned
    /\ DOMAIN finished.results = ObjectTypes
    /\ \A t \in ObjectTypes : finished.results[t].status = "error"
    /\ \A t \in ObjectTypes : CursorOf(cursors, t).status = FAILURE

FirstFetch == pc = "fetch" /\ pages = 0

\* C29: the first fetch of a run uses the offset of the cursor's resume token
\* when the cursor carries one, which is the one a previous attempt recorded
\* when it failed, and offset 1 otherwise: for a new cursor and for a cursor
\* whose last run completed.
C29_FirstFetchOffset ==
    FirstFetch
        => /\ start_position = pos0
           /\ start_position = IF ResumeToken # NoData THEN ResumeToken ELSE 1
           /\ (Len(trail) = 0 \/ LastRun.outcome = "success")
                 => start_position = 1
           /\ (Len(trail) > 0 /\ LastRun.outcome = "raised" /\ LastRun.recorded)
                 => start_position = LastRun.upto

\* the first fetch of a run after one that failed past its first page
C29_Witness ==
    /\ FirstFetch
    /\ Len(trail) = 1
    /\ LastRun.outcome = "raised" /\ LastRun.recorded
    /\ LastRun.upto > 1
    /\ start_position = LastRun.upto

\* C30: when the first vendor fetch of a run is about to be issued, the
\* durable cursor row exists with status in_progress and with the time of
\* this attempt.
C30_InProgressSavedBeforeFirstFetch ==
    FirstFetch
        => /\ cursors # {}
           /\ TheCursor.status = IN_PROGRESS
           /\ TheCursor.last_attempt_at = runs
           /\ TheCursor = cursor

\* the first fetch of a run whose cursor the run before had left in failure
C30_Witness ==
    /\ FirstFetch
    /\ Len(trail) = 1
    /\ LastRun.outcome = "raised" /\ LastRun.recorded
    /\ TheCursor.status = IN_PROGRESS
    /\ TheCursor.error_message # NoError
\* ------------------------------------------ last claims on the SyncCursor
\* the fields of progress: what a later run resumes from and what was counted
Progress(c) == <<c.last_synced_at, c.cursor_data, c.records_synced>>

\* C31: mark_attempt changes only the status and the time of the attempt: it
\* leaves last_synced_at, the resume token, records_synced and error_message
\* as they were; mark_failure never changes last_synced_at or records_synced.
C31_MarkAttemptKeepsProgress ==
    /\ call.op = "mark_attempt" =>
           /\ Progress(cursor) = Progress(call.before)
           /\ cursor.error_message = call.before.error_message
           /\ cursor.object_type = call.before.object_type
           /\ cursor.status = IN_PROGRESS
           /\ cursor.last_attempt_at = call.now
    /\ call.op = "mark_failure" =>
           /\ cursor.last_synced_at = call.before.last_synced_at
           /\ cursor.records_synced = call.before.records_synced
           /\ cursor.status = FAILURE

\* mark_attempt was called on a cursor that had a position, a resume token, a
\* count and an error message, and whose status it changed
C31_Witness ==
    /\ call.op = "mark_attempt"
    /\ call.before.last_synced_at # NoneTs
    /\ call.before.cursor_data # NoData
    /\ call.before.records_synced > 0
    /\ call.before.error_message # NoError
    /\ call.before.status = FAILURE

\* ------------------------------------------- last claims on the sync loop
\* C32: when the vendor honours the "updated since" filter it is sent (and
\* the ORDERBY of the query), the maximum timestamp of every non-empty page
\* is at least the cursor value in force when the page was requested, and the
\* loop's own advance_cursor call never raises the backward-movement error.
C32_PageMaxAtLeastCursor ==
    IsSorted(vendor) =>
        /\ pc \in {"persist", "checkpoint"} /\ get_cursor_value(cursor) # NoneTs
               => PageMax(qb_objects) >= get_cursor_value(cursor)
        /\ ~(pc = "handler" /\ failedAt = "checkpoint" /\ error = BackwardText)

\* QuickBooksAPIClient.MAX_RESULTS, and max_results when the caller gives none
MAX_RESULTS == 1000
NoMaxResults == 0

\* the query fetch_customers builds: the filter on LastUpdatedTime when
\* updated_since is given, STARTPOSITION, and MAXRESULTS when max_results is
\* given
CustomerQuery(updated_since, max_results, position) ==
    [since |-> IF updated_since # NoneTs THEN strftime(updated_since)
               ELSE NoneTs,
     startposition |-> position,
     maxresults |-> IF max_results # NoMaxResults
                    THEN Min2(max_results, MAX_RESULTS)
                    ELSE NoMaxResults]

\* the query of the request the loop is about to issue: _fetch_objects_from_api
\* passes updated_since and start_position, and no max_results
SentQuery ==
    CustomerQuery(get_cursor_value(cursor), NoMaxResults, start_position)

\* C33: every page request issued by the sync loop carries a page-size
\* ceiling of at most MAX_RESULTS, and no fetched page is longer than it.
C33_RequestsCarryCeiling ==
    /\ pc = "fetch" => SentQuery.maxresults \in 1..MAX_RESULTS
    /\ Len(qb_objects) <= MAX_RESULTS

\* The cursor row an earlier call can have left: none; one of a call that
\* died before its first checkpoint; one of a call that completed; one of a
\* call that failed after a page and left {"start_position": 2}.
PriorCursors ==
    {{}} \cup
    {{[NewCursor(CUSTOMER, MaxRuns - 1) EXCEPT
          !.last_synced_at = t,
          !.cursor_data = d,
          !.status = IF d # NoData THEN FAILURE
                     ELSE IF t # NoneTs THEN SUCCESS ELSE IN_PROGRESS,
          !.error_message = IF d # NoData THEN FetchErrorText ELSE NoError,
          !.records_synced = IF t # NoneTs THEN 1 ELSE 0]} :
       <<t, d>> \in {x \in ({NoneTs} \cup Timestamps) \X CursorData :
                        x[2] # NoData => x[1] # NoneTs}}

\* one call of the sync loop, on whatever an earlier call left
InitLive ==
    /\ vendor \in UNION {[1..n -> 1..MaxTs] : n \in 0..MaxRecords}
    /\ pageSize \in 1..MaxPageSize
    /\ cursors \in PriorCursors
    /\ objects = {}
    /\ pc = "idle"
    /\ cursor = NewCursor(CUSTOMER, 0)
    /\ start_position = 1
    /\ total_synced = 0
    /\ qb_objects = << >>
    /\ error = NoError
    /\ failedAt = "none"
    /\ runs = MaxRuns - 1
    /\ trail = << >>
    /\ lsa0 = NoneTs
    /\ observed = {}
    /\ pages = 0
    /\ accounted = {}
    /\ pos0 = 1
    /\ unwritten = 1
    /\ call = NoCall
    /\ NoCycle
    /\ probe = NoProbe
    /\ latest = NoWrites
    /\ NoWorkflow

\* The interpreter goes on with the next statement of a call as long as the
\* worker process lives, and a request or a save returns or raises (the HTTP
\* client has a timeout of 30 seconds): some step is always eventually taken.
SpecLive == InitLive /\ [][Next]_vars /\ WF_vars(Next)

\* how the call that has just ended ended
Ending == trail'[Len(trail')]

\* C34: a run of the sync loop stops only on an empty page or on a failure
\* (no page-count limit, no cancellation inside the loop; the worker process
\* dying is not the loop stopping), and against a finite vendor data set every
\* run eventually terminates.
C34_StopsOnlyAtEmptyPageAndTerminates ==
    /\ [][Running /\ ~Running' =>
              \/ /\ Ending.outcome = "success"
                 /\ pc = "finalize"
                 /\ qb_objects = << >>
              \/ /\ Ending.outcome = "raised"
                 /\ pc = "handler"
                 /\ Ending.cause # NoError
              \/ Ending.outcome = "crash"]_vars
    /\ (Running ~> ~Running)

\* a run went through as many pages as the vendor has objects, one object a
\* page, and stopped at the empty page after them
C34_Witness ==
    /\ Ended("success")
    /\ LastRun.pages = MaxRecords
    /\ Len(vendor) = MaxRecords
    /\ pageSize = 1

\* ------------------------------------------- last claims on the workflow
\* the account quickbooks_connect saves and the workflow it starts for it
ConnectedAccount(realm_id) ==
    IntegrationAccount(realm_id, exchange_code_for_tokens(ConnectExpiresIn, 0),
                       ACTIVE, 0)

StartedWorkflow(realm_id) ==
    WorkflowExecution(get_workflow_id(QUICKBOOKS, realm_id), QUICKBOOKS,
                      realm_id, sync_interval_minutes, 1, "scheduled", 1)

\* after the connect requests: one account or both are connected and their
\* workflows started; no further request comes in
InitWorkflowLive ==
    /\ \E realms \in (SUBSET AccountIds) \ {{}} :
          /\ accounts = {AccountRow(ConnectedAccount(r)) : r \in realms}
          /\ workflows = {StartedWorkflow(r) : r \in realms}
          /\ \E last \in realms :
                 response = [realm_id |-> last,
                             workflow_id |-> get_workflow_id(QUICKBOOKS, last),
                             workflow_started |-> TRUE, already |-> FALSE,
                             status |-> 200]
    /\ executing = {}
    /\ loops = << >>
    /\ remote = << >>
    /\ cpc = "idle"
    /\ account = NoAccount
    /\ pending = << >>
    /\ results = << >>
    /\ log = << >>
    /\ before = NoTables
    /\ finished = NoneFinished
    /\ probe = NoProbe
    /\ latest = NoWrites
    /\ NoSync
    /\ pageSize = 1
    /\ cursors = {}
    /\ objects = {}
    /\ runs = 0

\* the steps of the Temporal service and of the worker
NextWorkflowLive ==
    \/ ActivityStart
    \/ ActivityReturn
    \/ ActivityRaise
    \/ ActivityTimeout
    \/ AbandonedAttemptEnds
    \/ ContinueAsNew

\* The Temporal service fires its timers (the start_to_close timeout of an
\* attempt, the sleep of the workflow), a polling worker takes a scheduled
\* attempt when it has a free slot, and the code of an attempt comes to its
\* end: as long as one of these steps is possible, one is eventually taken.
SpecWorkflowLive ==
    /\ InitWorkflowLive
    /\ [][NextWorkflowLive]_vars
    /\ WF_vars(NextWorkflowLive)

\* the workflow of the account is open in its run number r
InRun(external_account_id, r) ==
    \E w \in workflows :
        w.external_account_id = external_account_id /\ w.run = r

\* ... and the activity of that run was started
CycleStarted(external_account_id, r) ==
    \E w \in workflows :
        /\ w.external_account_id = external_account_id
        /\ w.run = r
        /\ w.step # "scheduled"

\* C35: the sync workflow never ends in failure: an open workflow stays open
\* under its id with the same integration type, account id and interval, and
\* after every cycle, whether the activity returned or failed after its
\* maximum_attempts attempts, it eventually continues as new and the next
\* cycle is started (as long as the bound on the runs allows one).
C35_WorkflowAlwaysContinuesAsNew ==
    /\ [][\A w \in workflows : \E v \in workflows' :
              /\ v.id = w.id
              /\ v.integration_type = w.integration_type
              /\ v.external_account_id = w.external_account_id
              /\ v.sync_interval_minutes = w.sync_interval_minutes
              /\ v.run \in {w.run, w.run + 1}
              /\ v.step \in {"scheduled", "activity", "sleep"}]_vars
    /\ \A id \in AccountIds : \A r \in 1..(MaxRuns - 1) :
           InRun(id, r) ~> CycleStarted(id, r + 1)

\* the workflow is in its second run while the third attempt of its first
\* run, given up by the service, is still running: the first cycle failed
\* after its maximum_attempts attempts and the workflow continued as new
C35_Witness ==
    \E w \in workflows :
        /\ w.run = 2
        /\ [external_account_id |-> w.external_account_id, run |-> 1,
            attempt |-> maximum_attempts] \in executing

\* ------------------------------------------------ last claims on run_sync
\* res.get("has_more", False)
HasMore(res) == IF "has_more" \in DOMAIN res THEN res.has_more ELSE FALSE

\* workflows.py lines 70-78: sleep unless some entry has its has_more set
should_sleep(res) == ~(\E t \in DOMAIN res : HasMore(res[t]))

\* what the workflow holds in results after execute_activity: what run_sync
\* returned, or the empty dict of line 49 when the activity raised
WorkflowResults ==
    IF finished.outcome = "returned" THEN finished.results ELSE << >>

\* C36: the has_more flag of every result entry run_sync produces is false,
\* so the workflow, reading the results of a cycle that is over, never takes
\* its fast-sync branch: it sleeps its sync interval after every cycle.
C36_HasMoreNeverSet ==
    /\ \A t \in DOMAIN results : ~HasMore(results[t])
    /\ \A t \in DOMAIN finished.results :
           /\ ~HasMore(finished.results[t])
           /\ finished.results[t].status = "success"
                  => "has_more" \in DOMAIN finished.results[t]
    /\ cpc = "idle" => should_sleep(WorkflowResults)

\* run_sync returned after a sync of the customers that went through more
\* than one page and a sync of the invoices that failed
C36_Witness ==
    /\ Returned
    /\ DOMAIN finished.results = ObjectTypes
    /\ finished.results[CUSTOMER].status = "success"
    /\ finished.results[CUSTOMER].pages >= 2
    /\ finished.results[INVOICE].status = "error"

\* C37: from the in_progress write at the start of a run until the run is
\* over the durable cursor's status stays in_progress, and status success is
\* never durably recorded together with a resume token: a crash in the middle
\* of a run leaves no cursor that reports success.
C37_InProgressUntilRunEnds ==
    cursors # {} =>
        /\ Running => TheCursor.status = IN_PROGRESS
        /\ ~(TheCursor.status = SUCCESS /\ ResumeToken # NoData)
        /\ Ended("crash") => TheCursor.status # SUCCESS

\* the positions in the log of the calls of an operation
CallsOf(op) == {i \in 1..Len(Calls) : Calls[i].op = op}

\* the access tokens the API clients of the cycle were built with
ApiClientTokens == {Calls[i].arg : i \in CallsOf("api_client")}

\* C38: in a cycle that refreshed the credentials, the fetches of every object
\* type use the access token the refresh obtained (the one the account table
\* then holds), never the one the cycle started with; the credentials are
\* looked at once, before the first object type: no refresh comes between two
\* object types.
C38_FetchesUseRefreshedToken ==
    /\ HasCall("refresh_access_token", "ok") =>
           \A token \in ApiClientTokens :
               /\ token # AccountBefore.access_token
               /\ \A r \in accounts :
                      r.external_account_id = Calls[1].arg
                          => token = r.access_token
    /\ Cardinality(CallsOf("refresh_due")) <= 1
    /\ Cardinality(CallsOf("refresh_access_token")) <= 1
    /\ Cardinality(ApiClientTokens) <= 1
    /\ \A i \in CallsOf("refresh_due") \cup CallsOf("refresh_access_token")
                    \cup CallsOf("account_save") :
           \A j \in CallsOf("api_client") : i < j
    /\ \A j \in CallsOf("fetch") : j > 1 /\ Calls[j - 1].op = "api_client"

\* the credentials were refreshed and both object types were then fetched
\* with the new access token
C38_Witness ==
    /\ Returned
    /\ HasCall("refresh_access_token", "ok")
    /\ HasCall("fetch", CUSTOMER)
    /\ HasCall("fetch", INVOICE)
    /\ Cardinality(CallsOf("api_client")) = 2
    /\ ApiClientTokens = {AccountBefore.access_token + 1}

====
